---- MODULE Spec2Model ----
(***************************************************************************)
(* Grade book, grade state machine, answer feedback and text-question      *)
(* grading of the course application, as state machines.                   *)
(*                                                                         *)
(*   SpecMachine   one GradeStateMachine consuming grade changes one by    *)
(*                 one (the machine lives in course/models.py, which is    *)
(*                 not part of the sources at hand: it is modelled from    *)
(*                 the specification, section 4.1).                        *)
(*   SpecGradebook the GradeChange table and course/grades.py              *)
(*                 view_gradebook.                                         *)
(*   SpecFeedback  course/page.py AnswerFeedback.                          *)
(*   SpecText      course/page.py TextQuestion and its matchers.           *)
(***************************************************************************)
EXTENDS Integers, Sequences, FiniteSets, TLC

VARIABLES
    machine,        \* SpecMachine: the GradeStateMachine object
    consumed,       \* SpecMachine: the grade changes it has consumed so far
    grade_changes,  \* SpecGradebook: the GradeChange table, in insertion order
    response,       \* SpecGradebook: what the last view_gradebook request returned
    feedback_args,  \* SpecFeedback: the arguments of the last AnswerFeedback(...) call
    answer_feedback,\* SpecFeedback: the object it made, or the exception it raised
    feedback_json,  \* SpecFeedback: answer_feedback.as_json(), once stored
    reloaded,       \* SpecFeedback: AnswerFeedback.from_json(feedback_json)
    text_question,  \* SpecText: the TextQuestion constructed, or the exception raised
    text_answer,    \* SpecText: the answer_data of the last grade call
    text_feedback,  \* SpecText: what that grade call returned
    float_matcher,  \* SpecFloat: the FloatMatcher constructed
    float_answer,   \* SpecFloat: the answer the form was given, once validated
    float_grade,    \* SpecFloat: what FloatMatcher.grade returned or raised
    choice_question, \* SpecChoice: the ChoiceQuestion constructed
    page_data,      \* SpecChoice: the page data stored for the page
    choice_form,    \* SpecChoice: the choices of the form rendered last
    choice_answer,  \* SpecChoice: the answer_data of the last grade call
    choice_feedback, \* SpecChoice: what that grade call returned
    code_answer,    \* SpecCode: the answer_data of the last grade call
    code_run,       \* SpecCode: how the run request of that call went
    code_mails,     \* SpecCode: the mails that call sent
    code_feedback,  \* SpecCode: what that call returned or raised
    human_page,     \* SpecHuman: the code question with human feedback
    human_grade_data, \* SpecHuman: the grade_data of the last grade call
    human_feedback, \* SpecHuman: what that call returned or raised
    upload_grade_data, \* SpecUpload: the grade_data stored for the page visit
    upload_form, \* SpecUpload: the grading form posted last
    upload_answer, \* SpecUpload: the arguments of the last grade call
    upload_feedback, \* SpecUpload: what that grade call returned or raised
    struct_call, \* SpecStruct: the arguments of the last validate_struct call
    struct_result, \* SpecStruct: what that call returned or raised
    flow_call, \* SpecFlow: the flow descriptor given to the last validate_flow_desc call
    flow_result, \* SpecFlow: what that call returned or raised
    textpage_question, \* SpecTextPage: the TextQuestion constructed, or the exception raised
    textpage_post, \* SpecTextPage: the answer posted last, and whether the form accepted it
    textpage_feedback, \* SpecTextPage: what the last grade call returned or raised
    textpage_correct_answer, \* SpecTextPage: what the last correct_answer call returned or raised
    expiration_call, \* SpecExpiration: the arguments of the last is_expiration_mode_allowed call
    expiration_result, \* SpecExpiration: what that call returned or raised
    access_page, \* SpecAccess: the PageBase(...) call made, and the page or exception
    access_call, \* SpecAccess: the permissions given to the last get_modified_permissions_for_page call, before and after it
    access_result, \* SpecAccess: the permissions that call returned
    im_requests, \* SpecIm: the get_xmpp_connection calls made so far, each with its position
    im_connections, \* SpecIm: the CourseXMPP objects created so far
    xmpp_connections, \* SpecIm: _xmpp_connections, the connection cached for each course
    disconnectors, \* SpecIm: _disconnectors
    im_timers, \* SpecIm: the timer thread of the Disconnector of each connection
    im_raced \* SpecIm: a call missed the cache while another was between its miss and its registration

machineVars == <<machine, consumed>>
gradebookVars == <<grade_changes, response>>
feedbackVars == <<feedback_args, answer_feedback, feedback_json, reloaded>>
textVars == <<text_question, text_answer, text_feedback>>
floatVars == <<float_matcher, float_answer, float_grade>>
choiceVars ==
    <<choice_question, page_data, choice_form, choice_answer, choice_feedback>>
codeVars == <<code_answer, code_run, code_mails, code_feedback>>
humanVars == <<human_page, human_grade_data, human_feedback>>

uploadVars == <<upload_grade_data, upload_form, upload_answer, upload_feedback>>

structVars == <<struct_call, struct_result>>

flowVars == <<flow_call, flow_result>>

textPageVars == <<textpage_question, textpage_post, textpage_feedback, textpage_correct_answer>>

expirationVars == <<expiration_call, expiration_result>>

accessVars == <<access_page, access_call, access_result>>

imVars == <<im_requests, im_connections, xmpp_connections, disconnectors, im_timers, im_raced>>

vars ==
    <<machineVars, gradebookVars, feedbackVars, textVars,
      floatVars, choiceVars, codeVars, humanVars, uploadVars,
      structVars, flowVars, textPageVars, expirationVars,
      accessVars, imVars>>

\* the variables of the other specifications
exceptMachineVars ==
    <<gradebookVars, feedbackVars, textVars, floatVars, choiceVars,
      codeVars, humanVars, uploadVars, structVars, flowVars,
      textPageVars, expirationVars, accessVars, imVars>>
exceptGradebookVars ==
    <<machineVars, feedbackVars, textVars, floatVars, choiceVars,
      codeVars, humanVars, uploadVars, structVars, flowVars,
      textPageVars, expirationVars, accessVars, imVars>>
exceptFeedbackVars ==
    <<machineVars, gradebookVars, textVars, floatVars, choiceVars,
      codeVars, humanVars, uploadVars, structVars, flowVars,
      textPageVars, expirationVars, accessVars, imVars>>
exceptTextVars ==
    <<machineVars, gradebookVars, feedbackVars, floatVars,
      choiceVars, codeVars, humanVars, uploadVars, structVars,
      flowVars, textPageVars, expirationVars, accessVars, imVars>>
exceptFloatVars ==
    <<machineVars, gradebookVars, feedbackVars, textVars,
      choiceVars, codeVars, humanVars, uploadVars, structVars,
      flowVars, textPageVars, expirationVars, accessVars, imVars>>
exceptChoiceVars ==
    <<machineVars, gradebookVars, feedbackVars, textVars,
      floatVars, codeVars, humanVars, uploadVars, structVars,
      flowVars, textPageVars, expirationVars, accessVars, imVars>>
exceptCodeVars ==
    <<machineVars, gradebookVars, feedbackVars, textVars,
      floatVars, choiceVars, humanVars, uploadVars, structVars,
      flowVars, textPageVars, expirationVars, accessVars, imVars>>
\* SpecHuman also writes the variables of SpecCode
exceptHumanVars ==
    <<machineVars, gradebookVars, feedbackVars, textVars,
      floatVars, choiceVars, uploadVars, structVars, flowVars,
      textPageVars, expirationVars, accessVars, imVars>>
exceptStructVars ==
    <<machineVars, gradebookVars, feedbackVars, textVars,
      floatVars, choiceVars, codeVars, humanVars, uploadVars,
      flowVars, textPageVars, expirationVars, accessVars, imVars>>
exceptUploadVars ==
    <<machineVars, gradebookVars, feedbackVars, textVars,
      floatVars, choiceVars, codeVars, humanVars, structVars,
      flowVars, textPageVars, expirationVars, accessVars, imVars>>
exceptTextPageVars ==
    <<machineVars, gradebookVars, feedbackVars, textVars,
      floatVars, choiceVars, codeVars, humanVars, uploadVars,
      structVars, flowVars, expirationVars, accessVars, imVars>>
exceptFlowVars ==
    <<machineVars, gradebookVars, feedbackVars, textVars,
      floatVars, choiceVars, codeVars, humanVars, uploadVars,
      structVars, textPageVars, expirationVars, accessVars, imVars>>
exceptAccessVars ==
    <<machineVars, gradebookVars, feedbackVars, textVars,
      floatVars, choiceVars, codeVars, humanVars, uploadVars,
      structVars, flowVars, textPageVars, expirationVars, imVars>>
exceptExpirationVars ==
    <<machineVars, gradebookVars, feedbackVars, textVars,
      floatVars, choiceVars, codeVars, humanVars, uploadVars,
      structVars, flowVars, textPageVars, accessVars, imVars>>
exceptImVars ==
    <<machineVars, gradebookVars, feedbackVars, textVars,
      floatVars, choiceVars, codeVars, humanVars, uploadVars,
      structVars, flowVars, textPageVars, expirationVars, accessVars>>

(* ------------------------------ bounds -------------------------------- *)

MaxPoints == 1          \* points of a graded event range over 0..MaxPoints
MaxConsumed == 3        \* grade changes fed to the single machine of SpecMachine
MaxGradeChanges == 2    \* rows of the GradeChange table in SpecGradebook
Scale == 4              \* correctness values are the multiples of 1/Scale
MaxMatchers == 2        \* entries of the answers list of a TextQuestion
MaxChoices == 3         \* choices of a ChoiceQuestion
MaxValue == 2           \* point value of a page

\* Python's None; a value that may be None is the empty tuple or the
\* one-element tuple of the value
None == <<>>
Some(v) == <<v>>

\* no request has been answered and not yet sent
NoResponse == [status |-> "none"]

\* no object, no call, nothing stored
NoObject == [exc |-> "no object"]
NoCall == [called |-> FALSE]
NoJson == [stored |-> FALSE]

\* the variables of a specification that does not use them
IdleMachine == machine = [state |-> "unused"] /\ consumed = <<>>
IdleGradebook == grade_changes = <<>> /\ response = NoResponse
IdleFeedback ==
    /\ feedback_args = NoCall
    /\ answer_feedback = NoObject
    /\ feedback_json = NoJson
    /\ reloaded = NoObject
IdleText ==
    /\ text_question = NoObject
    /\ text_answer = NoCall
    /\ text_feedback = NoObject
IdleFloat ==
    /\ float_matcher = NoObject
    /\ float_answer = NoCall
    /\ float_grade = NoCall
IdleChoice ==
    /\ choice_question = NoObject
    /\ page_data = NoObject
    /\ choice_form = NoCall
    /\ choice_answer = NoCall
    /\ choice_feedback = NoObject
IdleCode ==
    /\ code_answer = NoCall
    /\ code_run = NoCall
    /\ code_mails = <<>>
    /\ code_feedback = NoObject
IdleUpload ==
    /\ upload_grade_data = None
    /\ upload_form = NoCall
    /\ upload_answer = NoCall
    /\ upload_feedback = NoObject
IdleHuman ==
    /\ human_page = NoObject
    /\ human_grade_data = NoCall
    /\ human_feedback = NoObject
IdleFlow ==
    /\ flow_call = NoCall
    /\ flow_result = NoObject
IdleStruct ==
    /\ struct_call = NoCall
    /\ struct_result = NoObject
IdleExpiration ==
    /\ expiration_call = NoCall
    /\ expiration_result = NoObject
IdleTextPage ==
    /\ textpage_question = NoObject
    /\ textpage_post = NoCall
    /\ textpage_feedback = NoObject
    /\ textpage_correct_answer = NoObject
IdleIm ==
    /\ im_requests = <<>>
    /\ im_connections = <<>>
    /\ xmpp_connections = <<>>
    /\ disconnectors = <<>>
    /\ im_timers = <<>>
    /\ im_raced = FALSE
IdleAccess ==
    /\ access_page = NoObject
    /\ access_call = NoCall
    /\ access_result = NoObject

\* identifiers of attempts (flow sessions) a grade change can belong to
Attempts == {"a1", "a2"}

Points == 0 .. MaxPoints

(* ----------------------- course/constants.py -------------------------- *)

grade_state_change_types ==
    {"grading_started", "graded", "retrieved", "unavailable",
     "extension", "report_sent", "do_over", "exempt"}

grade_aggregation_strategy ==
    {"max_grade", "avg_grade", "min_grade", "use_earliest", "use_latest"}

(* ------------------------- generic helpers ---------------------------- *)

RECURSIVE SeqSum(_)
SeqSum(s) == IF s = <<>> THEN 0 ELSE Head(s) + SeqSum(Tail(s))

SetMax(S) == CHOOSE x \in S : \A y \in S : y <= x
SetMin(S) == CHOOSE x \in S : \A y \in S : x <= y

RECURSIVE SeqMax(_)
SeqMax(s) ==
    IF Len(s) = 1 THEN s[1]
    ELSE LET m == SeqMax(Tail(s)) IN IF s[1] >= m THEN s[1] ELSE m

RECURSIVE SeqMin(_)
SeqMin(s) ==
    IF Len(s) = 1 THEN s[1]
    ELSE LET m == SeqMin(Tail(s)) IN IF s[1] <= m THEN s[1] ELSE m

(* ---------------- grade state machine (specification 4.1) ------------- *)

\* The payload of a grade change the machine reads: kind, points (None
\* unless graded), max_points and the attempt it belongs to.
GradeChangePayloads ==
    [kind : {"graded"}, points : {Some(p) : p \in Points}, max_points : {MaxPoints},
     attempt_id : Attempts]
    \cup
    [kind : grade_state_change_types \ {"graded"}, points : {None},
     max_points : {MaxPoints}, attempt_id : Attempts]

\* A freshly constructed machine: no grade, no points.
GradeStateMachine ==
    [state |-> "do_not_yet_have_grade",
     results |-> <<>>,        \* results of the attempts that reached graded, oldest result first
     pending |-> {},          \* attempts started and not yet terminated
     retrieved |-> FALSE,
     extended |-> FALSE,
     report_sent |-> FALSE]

\* the recorded results without the one of attempt a
WithoutAttempt(results, a) == SelectSeq(results, LAMBDA r : r.attempt_id # a)

\* grading_started: begins an attempt, pending until a terminal event arrives
consume_grading_started(m, e) ==
    [m EXCEPT !.pending = @ \cup {e.attempt_id}]

\* graded: records (points, max_points) as the result of the event's attempt
consume_graded(m, e) ==
    [m EXCEPT
        !.results = Append(WithoutAttempt(@, e.attempt_id),
            [attempt_id |-> e.attempt_id, points |-> e.points[1],
             max_points |-> e.max_points]),
        !.pending = @ \ {e.attempt_id},
        !.state = IF @ = "exempt" THEN "exempt" ELSE "has_grade"]

\* retrieved: marks the grade as retrieved, points untouched
consume_retrieved(m, e) == [m EXCEPT !.retrieved = TRUE]

consume_unavailable_ignored(m, e) == m

\* unavailable: the attempt yields no usable grade and leaves the aggregation
consume_unavailable(m, e) ==
    LET rest == WithoutAttempt(m.results, e.attempt_id) IN
    [m EXCEPT
        !.results = rest,
        !.pending = @ \ {e.attempt_id},
        !.state = IF @ = "exempt" THEN "exempt"
                  ELSE IF rest = <<>> THEN "do_not_yet_have_grade"
                  ELSE "has_grade"]

\* extension: alters the deadline context, points untouched
consume_extension(m, e) == [m EXCEPT !.extended = TRUE]

\* report_sent: records that a report was dispatched, no score effect
consume_report_sent(m, e) == [m EXCEPT !.report_sent = TRUE]

consume_do_over_current_attempt_only(m, e) ==
    LET rest == WithoutAttempt(m.results, e.attempt_id) IN
    [m EXCEPT
        !.results = rest,
        !.pending = @ \ {e.attempt_id},
        !.state = IF @ = "exempt" THEN "exempt"
                  ELSE IF rest = <<>> THEN "do_not_yet_have_grade"
                  ELSE "has_grade"]

\* do_over: discards the recorded points and starts fresh
consume_do_over(m, e) ==
    [m EXCEPT
        !.results = <<>>,
        !.pending = {},
        !.state = IF @ = "exempt" THEN "exempt" ELSE "do_not_yet_have_grade"]

consume_exempt_ignored(m, e) == m

\* exempt: overrides all other state, sticky for the rest of the sequence
consume_exempt(m, e) == [m EXCEPT !.state = "exempt"]

\* one step of consume: dispatch on the kind of the grade change
consume_grade_change(m, e) ==
    CASE e.kind = "grading_started" -> consume_grading_started(m, e)
      [] e.kind = "graded" -> consume_graded(m, e)
      [] e.kind = "retrieved" -> consume_retrieved(m, e)
      [] e.kind = "unavailable" -> consume_unavailable(m, e)
      [] e.kind = "extension" -> consume_extension(m, e)
      [] e.kind = "report_sent" -> consume_report_sent(m, e)
      [] e.kind = "do_over" -> consume_do_over(m, e)
      [] e.kind = "exempt" -> consume_exempt(m, e)

\* consume(ordered_events): the fold of the steps over the sequence
RECURSIVE consume(_, _)
consume(m, events) ==
    IF events = <<>> THEN m
    ELSE consume(consume_grade_change(m, Head(events)), Tail(events))

\* the points of the recorded results, oldest result first
ResultPoints(m) == [i \in 1 .. Len(m.results) |-> m.results[i].points]

\* The aggregate points under an aggregation strategy, a fraction
\* <<num, den>> (den is the number of attempts for avg_grade, 1 otherwise);
\* None without a graded attempt.
points(m, strategy) ==
    LET ps == ResultPoints(m) IN
    IF ps = <<>> THEN None
    ELSE CASE strategy = "max_grade" -> <<SeqMax(ps), 1>>
           [] strategy = "min_grade" -> <<SeqMin(ps), 1>>
           [] strategy = "avg_grade" -> <<SeqSum(ps), Len(ps)>>
           [] strategy = "use_earliest" -> <<ps[1], 1>>
           [] strategy = "use_latest" -> <<ps[Len(ps)], 1>>

\* the last known max_points; None without a graded attempt
max_points(m) ==
    IF m.results = <<>> THEN None
    ELSE Some(m.results[Len(m.results)].max_points)

(* --------------------------- SpecMachine ------------------------------ *)

\* GradeStateMachine(): a fresh machine replaces the current one
NewGradeStateMachine ==
    /\ consumed # <<>>
    /\ machine' = GradeStateMachine
    /\ consumed' = <<>>
    /\ UNCHANGED exceptMachineVars

\* one iteration of the loop of consume
ConsumeGradeChange ==
    /\ Len(consumed) < MaxConsumed
    /\ \E e \in GradeChangePayloads :
        /\ machine' = consume_grade_change(machine, e)
        /\ consumed' = Append(consumed, e)
    /\ UNCHANGED exceptMachineVars

InitMachine ==
    /\ machine = GradeStateMachine
    /\ consumed = <<>>
    /\ IdleGradebook
    /\ IdleFeedback
    /\ IdleText
    /\ IdleFloat
    /\ IdleChoice
    /\ IdleCode
    /\ IdleHuman
    /\ IdleUpload
    /\ IdleStruct
    /\ IdleFlow
    /\ IdleTextPage
    /\ IdleExpiration
    /\ IdleAccess
    /\ IdleIm

NextMachine == NewGradeStateMachine \/ ConsumeGradeChange

SpecMachine == InitMachine /\ [][NextMachine]_vars

(* ------------------- course/grades.py: grade book --------------------- *)

participation_role ==
    {"instructor", "ta", "student", "auditor", "observer", "unenrolled"}

participation_status == {"requested", "active", "dropped", "denied"}

\* The Participation rows of the course, already in the order of
\* order_by("user__last_name", "user__first_name").
Participation ==
    << [id |-> "p1", status |-> "active", role |-> "student"],
       [id |-> "p2", status |-> "active", role |-> "student"],
       [id |-> "p3", status |-> "active", role |-> "student"],
       [id |-> "p4", status |-> "dropped", role |-> "student"],
       [id |-> "ta1", status |-> "active", role |-> "ta"] >>

\* The GradingOpportunity rows of the course, in the order of
\* order_by("identifier").
GradingOpportunity == << "hw1" >>

\* the participations grade changes are recorded for
GradedParticipations == {"p1", "p2"}

\* The grade_time a new row can get: rows get the clock's value when they
\* are inserted, so it is the grade_time of the newest row (the clock has
\* not advanced) or a later one.
NextGradeTimes ==
    IF grade_changes = <<>> THEN {1}
    ELSE LET last == grade_changes[Len(grade_changes)].grade_time
         IN {last, last + 1}

\* what the machine reads of a GradeChange row
Payload(row) ==
    [kind |-> row.kind, points |-> row.points, max_points |-> row.max_points,
     attempt_id |-> row.attempt_id]

Payloads(rows) == [i \in 1 .. Len(rows) |-> Payload(rows[i])]

\* a grading action appends one GradeChange row; rows are never changed or deleted
AppendGradeChange ==
    /\ Len(grade_changes) < MaxGradeChanges
    /\ response = NoResponse
    /\ \E p \in GradedParticipations, o \in {GradingOpportunity[i] : i \in 1 .. Len(GradingOpportunity)},
          e \in GradeChangePayloads, t \in NextGradeTimes :
        grade_changes' = Append(grade_changes,
            [participation |-> p, opportunity |-> o, kind |-> e.kind,
             points |-> e.points, max_points |-> e.max_points,
             attempt_id |-> e.attempt_id, grade_time |-> t])
    /\ UNCHANGED <<response, exceptGradebookVars>>

\* all orders of the elements of a set
RECURSIVE Permutations_of(_)
Permutations_of(S) ==
    IF S = {} THEN {<<>>}
    ELSE UNION {{<<x>> \o q : q \in Permutations_of(S \ {x})} : x \in S}

\* GradeChange.objects.filter(participation=..., opportunity=...): row numbers
filter(participation, opp) ==
    {i \in 1 .. Len(grade_changes) :
        /\ grade_changes[i].participation = participation
        /\ grade_changes[i].opportunity = opp}

\* .order_by("grade_time"): the rows in an order of nondecreasing grade_time;
\* the query names no second key, so the database returns rows of equal
\* grade_time in any order.
order_by_grade_time(I) ==
    {q \in Permutations_of(I) :
        \A i, j \in 1 .. Len(q) :
            i < j => grade_changes[q[i]].grade_time <= grade_changes[q[j]].grade_time}

state_machine_of_previous_pair(previous) == previous

\* state_machine = GradeStateMachine(): a new machine in every iteration,
\* whatever machine the name was bound to in the previous iteration
state_machine_for_pair(previous) == GradeStateMachine

\* GradeInfo, with the grade changes the machine was fed
GradeInfo(participation, opp, rows, state_machine) ==
    [participation |-> participation, opportunity |-> opp,
     grade_changes |-> rows, grade_state_machine |-> state_machine]

\* the inner loop over the opportunities from index k: the grade rows that
\* can result, one per choice of the database's row order
RECURSIVE grade_rows(_, _, _)
grade_rows(participation, k, previous) ==
    IF k > Len(GradingOpportunity) THEN {<<>>}
    ELSE LET opp == GradingOpportunity[k] IN
         UNION {
            LET rows == [i \in 1 .. Len(q) |-> grade_changes[q[i]]]
                state_machine == consume(state_machine_for_pair(previous), rows)
            IN {<<GradeInfo(participation, opp, rows, state_machine)>> \o rest :
                    rest \in grade_rows(participation, k + 1, state_machine)}
            : q \in order_by_grade_time(filter(participation, opp))}

\* the machine the name state_machine is bound to after a grade row
LastMachine(row, previous) ==
    IF row = <<>> THEN previous ELSE row[Len(row)].grade_state_machine

\* the outer loop over the participations: the grade tables that can result
RECURSIVE grade_tables(_, _)
grade_tables(participations, previous) ==
    IF participations = <<>> THEN {<<>>}
    ELSE UNION {
            {<<row>> \o rest :
                rest \in grade_tables(Tail(participations),
                                      LastMachine(row, previous))}
            : row \in grade_rows(Head(participations).id, 1, previous)}

\* view_gradebook, requested by a user with the given role
view_gradebook(role) ==
    /\ response = NoResponse
    /\ IF role \notin {"instructor", "ta"}
       THEN response' = [status |-> "PermissionDenied"]
       ELSE LET participations ==
                    SelectSeq(Participation,
                        LAMBDA p : p.status = "active" /\ p.role = "student")
            IN \E grade_table \in grade_tables(participations, GradeStateMachine) :
                response' = [status |-> "ok",
                             participations |-> participations,
                             grade_table |-> grade_table]
    /\ UNCHANGED <<grade_changes, exceptGradebookVars>>

ViewGradebook == \E role \in participation_role : view_gradebook(role)

\* the response is rendered and sent; the machines are discarded
Respond ==
    /\ response # NoResponse
    /\ response' = NoResponse
    /\ UNCHANGED <<grade_changes, exceptGradebookVars>>

InitGradebook ==
    /\ IdleMachine
    /\ grade_changes = <<>>
    /\ response = NoResponse
    /\ IdleFeedback
    /\ IdleText
    /\ IdleFloat
    /\ IdleChoice
    /\ IdleCode
    /\ IdleHuman
    /\ IdleUpload
    /\ IdleStruct
    /\ IdleFlow
    /\ IdleTextPage
    /\ IdleExpiration
    /\ IdleAccess
    /\ IdleIm

NextGradebook == AppendGradeChange \/ ViewGradebook \/ Respond

SpecGradebook == InitGradebook /\ [][NextGradebook]_vars

\* the GradeInfo entries of the grade table of the response
GradeInfos ==
    IF response.status # "ok" THEN {}
    ELSE {response.grade_table[i][j] :
            i \in 1 .. Len(response.grade_table),
            j \in 1 .. Len(GradingOpportunity)}

(* ------------------ course/page.py: AnswerFeedback -------------------- *)

\* A correctness is None or Some(k), k an integer: the number k / Scale.
CorrectnessValues == {None} \cup {Some(k) : k \in -1 .. Scale + 1}

\* feedback texts are tuples: <<text>>, or <<format, tenths of a percent>>
\* for a text that holds a formatted percentage; None is no text
FeedbackTexts == {None, <<"Good, but mind the units.">>}

\* an instance of class NoNormalizedAnswerAvailable
NoNormalizedAnswerAvailable == <<"NoNormalizedAnswerAvailable", "instance">>

\* normalized answers: an instance of NoNormalizedAnswerAvailable, None,
\* or Some(html text)
NormalizedAnswers == {NoNormalizedAnswerAvailable, None, Some("paris")}

\* "%.1f" % (100*correctness): the percentage rounded to tenths
format_percent(k) == (2000 * k + Scale) \div (2 * Scale)

get_auto_feedback_half_is_mostly(correctness) ==
    IF correctness = Some(0) THEN <<"Your answer is not correct.">>
    ELSE IF correctness = Some(Scale) THEN <<"Your answer is correct.">>
    ELSE IF correctness # None /\ 2 * correctness[1] >= Scale
    THEN <<"Your answer is mostly correct. (%.1f %%)",
           format_percent(correctness[1])>>
    ELSE IF correctness = None
    THEN <<"(No information on correctness of answer.)">>
    ELSE <<"Your answer is somewhat correct. (%.1f %%)",
           format_percent(correctness[1])>>

\* get_auto_feedback; None > 0.5 is False (Python 2 orders None below every
\* number), so None reaches the "is None" branch
get_auto_feedback(correctness) ==
    IF correctness = Some(0) THEN <<"Your answer is not correct.">>
    ELSE IF correctness = Some(Scale) THEN <<"Your answer is correct.">>
    ELSE IF correctness # None /\ 2 * correctness[1] > Scale
    THEN <<"Your answer is mostly correct. (%.1f %%)",
           format_percent(correctness[1])>>
    ELSE IF correctness = None
    THEN <<"(No information on correctness of answer.)">>
    ELSE <<"Your answer is somewhat correct. (%.1f %%)",
           format_percent(correctness[1])>>

AnswerFeedback_init_rejecting_one(correctness, feedback, normalized_answer) ==
    IF correctness # None /\ (correctness[1] < 0 \/ correctness[1] >= Scale)
    THEN [exc |-> "ValueError"]
    ELSE [exc |-> "none",
          correctness |-> correctness,
          feedback |-> IF feedback = None THEN get_auto_feedback(correctness)
                       ELSE feedback,
          normalized_answer |-> normalized_answer]

\* AnswerFeedback.__init__: the object, or the exception raised
AnswerFeedback_init(correctness, feedback, normalized_answer) ==
    IF correctness # None /\ (correctness[1] < 0 \/ correctness[1] > Scale)
    THEN [exc |-> "ValueError"]
    ELSE [exc |-> "none",
          correctness |-> correctness,
          feedback |-> IF feedback = None THEN get_auto_feedback(correctness)
                       ELSE feedback,
          normalized_answer |-> normalized_answer]

\* AnswerFeedback.as_json: a dict without the key normalized_answer when the
\* attribute is an instance of NoNormalizedAnswerAvailable
as_json(self) ==
    IF self.normalized_answer # NoNormalizedAnswerAvailable
    THEN [correctness |-> self.correctness, feedback |-> self.feedback,
          normalized_answer |-> self.normalized_answer]
    ELSE [correctness |-> self.correctness, feedback |-> self.feedback]

from_json_default_none(json) ==
    AnswerFeedback_init(
        json.correctness,
        json.feedback,
        IF "normalized_answer" \in DOMAIN json THEN json.normalized_answer
        ELSE None)

\* AnswerFeedback.from_json
from_json(json) ==
    AnswerFeedback_init(
        json.correctness,
        json.feedback,
        IF "normalized_answer" \in DOMAIN json THEN json.normalized_answer
        ELSE NoNormalizedAnswerAvailable)

\* AnswerFeedback(correctness, feedback, normalized_answer)
NewAnswerFeedback ==
    /\ \E c \in CorrectnessValues, f \in FeedbackTexts, n \in NormalizedAnswers :
        /\ feedback_args' = [called |-> TRUE, correctness |-> c, feedback |-> f,
                             normalized_answer |-> n]
        /\ answer_feedback' = AnswerFeedback_init(c, f, n)
    /\ feedback_json' = NoJson
    /\ reloaded' = NoObject
    /\ UNCHANGED exceptFeedbackVars

\* the feedback is stored: answer_feedback.as_json()
StoreAsJson ==
    /\ answer_feedback.exc = "none"
    /\ feedback_json = NoJson
    /\ feedback_json' = [stored |-> TRUE, json |-> as_json(answer_feedback)]
    /\ UNCHANGED <<feedback_args, answer_feedback, reloaded>>
    /\ UNCHANGED exceptFeedbackVars

\* the stored feedback is loaded again: AnswerFeedback.from_json(...)
LoadFromJson ==
    /\ feedback_json # NoJson
    /\ reloaded = NoObject
    /\ reloaded' = from_json(feedback_json.json)
    /\ UNCHANGED <<feedback_args, answer_feedback, feedback_json>>
    /\ UNCHANGED exceptFeedbackVars

InitFeedback ==
    /\ IdleMachine
    /\ IdleGradebook
    /\ feedback_args = NoCall
    /\ answer_feedback = NoObject
    /\ feedback_json = NoJson
    /\ reloaded = NoObject
    /\ IdleText
    /\ IdleFloat
    /\ IdleChoice
    /\ IdleCode
    /\ IdleHuman
    /\ IdleUpload
    /\ IdleStruct
    /\ IdleFlow
    /\ IdleTextPage
    /\ IdleExpiration
    /\ IdleAccess
    /\ IdleIm

NextFeedback == NewAnswerFeedback \/ StoreAsJson \/ LoadFromJson

SpecFeedback == InitFeedback /\ [][NextFeedback]_vars

(* ------------------ course/page.py: text answer matchers -------------- *)

\* Strings are sequences of character codes:
\* "$" 36, "&" 38, "." 46, "<" 60, "A" 65, "B" 66, "a" 97, "b" 98.

\* the patterns of the answers of a page:
\* "", "a", "A", "b", "Ab", "aB", ".", "a$"
Patterns ==
    {<<>>, <<97>>, <<65>>, <<98>>, <<65, 98>>, <<97, 66>>, <<46>>, <<97, 36>>}

\* what a participant submits: the form requires a nonempty answer and
\* answer_data strips it; "a", "A", "b", "Ab", "aB", "<"
Answers == {<<97>>, <<65>>, <<98>>, <<65, 98>>, <<97, 66>>, <<60>>}

\* the answer_data handed to grade: None, or the dict holding the answer
AnswerData == {None} \cup {Some(a) : a \in Answers}

\* the types of the matcher classes of the list (the symbolic matcher,
\* which parses with pymbolic and sympy, is not modelled)
TEXT_ANSWER_MATCHER_CLASSES ==
    <<"case_sens_plain", "plain", "regex", "case_sens_regex", "float">>

\* matcher_class.pattern_type
pattern_type(matcher_type) ==
    IF matcher_type = "float" THEN "struct" ELSE "string"

\* the string entries of page_desc.answers, split into matcher type and
\* pattern; "bogus" is a type no matcher class has
MatcherDescs ==
    [type : {TEXT_ANSWER_MATCHER_CLASSES[i] :
                i \in {j \in 1 .. Len(TEXT_ANSWER_MATCHER_CLASSES) :
                    pattern_type(TEXT_ANSWER_MATCHER_CLASSES[j]) = "string"}},
     pattern : Patterns]
    \cup {[type |-> "bogus", pattern |-> <<97>>]}

\* page_desc.answers
AnswerLists == UNION {[1 .. n -> MatcherDescs] : n \in 0 .. MaxMatchers}

\* one character of str.lower()
lower_char(c) == IF c \in 65 .. 90 THEN c + 32 ELSE c

\* str.lower()
lower(s) == [i \in 1 .. Len(s) |-> lower_char(s[i])]

\* CaseSensitivePlainMatcher.grade: int(self.pattern == s)
CaseSensitivePlainMatcher_grade(pattern, s) == IF pattern = s THEN 1 ELSE 0

PlainMatcher_grade_lowering_pattern_only(pattern, s) ==
    IF lower(pattern) = s THEN 1 ELSE 0

\* PlainMatcher.grade: int(self.pattern.lower() == s.lower())
PlainMatcher_grade(pattern, s) == IF lower(pattern) = lower(s) THEN 1 ELSE 0

\* pattern.match(s) for the patterns of Patterns: literal characters, "."
\* (any character) and "$" (the end of the input); the match starts at the
\* first character of s and need not reach its end
RECURSIVE re_match(_, _, _)
re_match(pattern, s, ignore_case) ==
    IF pattern = <<>> THEN TRUE
    ELSE IF Head(pattern) = 36
    THEN s = <<>> /\ re_match(Tail(pattern), s, ignore_case)
    ELSE IF s = <<>> THEN FALSE
    ELSE IF Head(pattern) = 46
    THEN re_match(Tail(pattern), Tail(s), ignore_case)
    ELSE /\ IF ignore_case
            THEN lower_char(Head(pattern)) = lower_char(Head(s))
            ELSE Head(pattern) = Head(s)
         /\ re_match(Tail(pattern), Tail(s), ignore_case)

RegexMatcher_grade_whole_input(pattern, s) ==
    IF re_match(pattern \o <<36>>, s, TRUE) THEN 1 ELSE 0

\* RegexMatcher.grade with re_flags = re.I
RegexMatcher_grade(pattern, s) == IF re_match(pattern, s, TRUE) THEN 1 ELSE 0

\* RegexMatcher.grade with the re_flags = 0 of CaseSensitiveRegexMatcher
CaseSensitiveRegexMatcher_grade(pattern, s) ==
    IF re_match(pattern, s, FALSE) THEN 1 ELSE 0

(* ------------------ course/page.py: FloatMatcher ---------------------- *)

\* Rational numbers are pairs <<numerator, denominator>>, denominator > 0.
\* The values, tolerances and most answers below are multiples of 1/2 of
\* small size, on which the floating point operations of grade are exact;
\* "10.4" and "10.6" lie far enough from every tolerance boundary for their
\* rounding not to matter.

\* matcher_desc.value: 0, 10
FloatValues == {<<0, 1>>, <<10, 1>>}

\* matcher_desc.atol, where the attribute exists: 0, 0.5, 3
FloatAtols == {<<0, 1>>, <<1, 2>>, <<3, 1>>}

\* matcher_desc.rtol, where the attribute exists: 0.25
FloatRtols == {<<1, 4>>}

\* the matcher_desc structs that validate_struct accepts: value is required,
\* atol and rtol are optional
FloatMatcherDescs ==
    [value : FloatValues]
    \cup [value : FloatValues, atol : FloatAtols]
    \cup [value : FloatValues, rtol : FloatRtols]
    \cup [value : FloatValues, atol : FloatAtols, rtol : FloatRtols]

\* the answers typed into the form, as character codes ("-" 45, "." 46,
\* "0".."9" 48..57, "a" 97, "n" 110, "x" 120):
\* "0", "9.5", "10", "10.4", "10.5", "10.6", "11", "12.5", "13", "-10",
\* "nan", "x", "1.0.5"
FloatAnswers ==
    {<<48>>, <<57, 46, 53>>, <<49, 48>>, <<49, 48, 46, 52>>,
     <<49, 48, 46, 53>>, <<49, 48, 46, 54>>, <<49, 49>>,
     <<49, 50, 46, 53>>, <<49, 51>>, <<45, 49, 48>>,
     <<110, 97, 110>>, <<120>>, <<49, 46, 48, 46, 53>>}

\* the number a sequence of decimal digits denotes
RECURSIVE digits_value(_)
digits_value(digits) ==
    IF digits = <<>> THEN 0
    ELSE 10 * digits_value(SubSeq(digits, 1, Len(digits) - 1))
         + (digits[Len(digits)] - 48)

RECURSIVE Pow10(_)
Pow10(k) == IF k = 0 THEN 1 ELSE 10 * Pow10(k - 1)

\* float(s) for text without exponent and surrounding blanks: the float, or
\* the ValueError raised
float(s) ==
    LET signed == s # <<>> /\ s[1] \in {43, 45}
        negative == s # <<>> /\ s[1] = 45
        body == IF signed THEN Tail(s) ELSE s
        dots == {i \in 1 .. Len(body) : body[i] = 46}
    IN IF lower(body) = <<110, 97, 110>>
       THEN [exc |-> "none", kind |-> "nan"]
       ELSE IF lower(body) \in {<<105, 110, 102>>,
                                <<105, 110, 102, 105, 110, 105, 116, 121>>}
       THEN [exc |-> "none", kind |-> "inf"]
       ELSE IF \/ Cardinality(dots) > 1
               \/ \E i \in 1 .. Len(body) : body[i] \notin (48 .. 57) \cup {46}
               \/ ~\E i \in 1 .. Len(body) : body[i] \in 48 .. 57
       THEN [exc |-> "ValueError"]
       ELSE LET point == IF dots = {} THEN Len(body) + 1
                         ELSE CHOOSE i \in dots : TRUE
                whole == SubSeq(body, 1, point - 1)
                fraction == SubSeq(body, point + 1, Len(body))
                n == digits_value(whole \o fraction)
            IN [exc |-> "none", kind |-> "finite",
                q |-> <<IF negative THEN 0 - n ELSE n, Pow10(Len(fraction))>>]

\* abs(x) of an integer
Abs(n) == IF n < 0 THEN 0 - n ELSE n

\* abs(answer_float - value)
abs_difference(answer_float, value) ==
    IF answer_float.kind = "finite"
    THEN [kind |-> "finite",
          q |-> <<Abs(answer_float.q[1] * value[2] - value[1] * answer_float.q[2]),
                  answer_float.q[2] * value[2]>>]
    ELSE [kind |-> answer_float.kind]

\* x / abs(value) for a value that is not 0
quotient(x, value) ==
    IF x.kind = "finite"
    THEN [kind |-> "finite", q |-> <<x.q[1] * value[2], x.q[2] * Abs(value[1])>>]
    ELSE [kind |-> x.kind]

\* x >= tolerance: always False of nan, True of inf
at_least(x, tolerance) ==
    CASE x.kind = "nan" -> FALSE
      [] x.kind = "inf" -> TRUE
      [] x.kind = "finite" -> x.q[1] * tolerance[2] >= tolerance[1] * x.q[2]

\* FloatMatcher.validate: does the form accept s
FloatMatcher_validate(s) == float(s).exc = "none"

\* FloatMatcher.grade: the grade returned, or the exception raised
FloatMatcher_grade(matcher_desc, s) ==
    LET answer_float == float(s)
        difference == abs_difference(answer_float, matcher_desc.value)
    IN IF answer_float.exc # "none" THEN [exc |-> "ValueError"]
       ELSE IF /\ "atol" \in DOMAIN matcher_desc
               /\ at_least(difference, matcher_desc.atol)
       THEN [exc |-> "none", grade |-> 0]
       ELSE IF "rtol" \notin DOMAIN matcher_desc
       THEN [exc |-> "none", grade |-> 1]
       ELSE IF matcher_desc.value[1] = 0
       THEN [exc |-> "ZeroDivisionError"]
       ELSE IF at_least(quotient(difference, matcher_desc.value),
                        matcher_desc.rtol)
       THEN [exc |-> "none", grade |-> 0]
       ELSE [exc |-> "none", grade |-> 1]

\* FloatMatcher(vctx, location, matcher_desc)
NewFloatMatcher ==
    /\ float_matcher = NoObject
    /\ \E matcher_desc \in FloatMatcherDescs :
        float_matcher' = [exc |-> "none", matcher_desc |-> matcher_desc]
    /\ UNCHANGED <<float_answer, float_grade>>
    /\ UNCHANGED exceptFloatVars

\* TextAnswerForm.clean: matcher.validate(answer)
ValidateFloatAnswer ==
    /\ float_matcher.exc = "none"
    /\ \E s \in FloatAnswers :
        float_answer' = [called |-> TRUE, answer |-> s,
                         valid |-> FloatMatcher_validate(s)]
    /\ float_grade' = NoCall
    /\ UNCHANGED float_matcher
    /\ UNCHANGED exceptFloatVars

\* matcher.grade(answer) on an answer the form has accepted
GradeFloatAnswer ==
    /\ float_answer # NoCall
    /\ float_answer.valid
    /\ float_grade = NoCall
    /\ float_grade' =
        [called |-> TRUE,
         result |-> FloatMatcher_grade(float_matcher.matcher_desc,
                                       float_answer.answer)]
    /\ UNCHANGED <<float_matcher, float_answer>>
    /\ UNCHANGED exceptFloatVars

InitFloat ==
    /\ IdleMachine
    /\ IdleGradebook
    /\ IdleFeedback
    /\ IdleText
    /\ float_matcher = NoObject
    /\ float_answer = NoCall
    /\ float_grade = NoCall
    /\ IdleChoice
    /\ IdleCode
    /\ IdleHuman
    /\ IdleUpload
    /\ IdleStruct
    /\ IdleFlow
    /\ IdleTextPage
    /\ IdleExpiration
    /\ IdleAccess
    /\ IdleIm

NextFloat == NewFloatMatcher \/ ValidateFloatAnswer \/ GradeFloatAnswer

SpecFloat == InitFloat /\ [][NextFloat]_vars

(* ------------------ course/page.py: TextQuestion ---------------------- *)

\* str(value) of a value that is an integer
RECURSIVE str_of_int(_)
str_of_int(n) ==
    IF n < 0 THEN <<45>> \o str_of_int(0 - n)
    ELSE IF n < 10 THEN <<48 + n>>
    ELSE str_of_int(n \div 10) \o <<48 + (n % 10)>>

\* matcher.validate(s): only the numeric matcher rejects anything
matcher_validate(matcher, s) ==
    IF matcher.type = "float" THEN FloatMatcher_validate(s) ELSE TRUE

\* matcher.grade(s) raises: the exception, or "none"
matcher_grade_raises(matcher, s) ==
    IF matcher.type = "float"
    THEN FloatMatcher_grade(matcher.matcher_desc, s).exc
    ELSE "none"

\* matcher.grade(s), where it returns
matcher_grade(matcher, s) ==
    CASE matcher.type = "case_sens_plain" ->
            CaseSensitivePlainMatcher_grade(matcher.pattern, s)
      [] matcher.type = "plain" -> PlainMatcher_grade(matcher.pattern, s)
      [] matcher.type = "regex" -> RegexMatcher_grade(matcher.pattern, s)
      [] matcher.type = "case_sens_regex" ->
            CaseSensitiveRegexMatcher_grade(matcher.pattern, s)
      [] matcher.type = "float" ->
            FloatMatcher_grade(matcher.matcher_desc, s).grade

\* matcher.correct_answer_text(): the pattern of the plain matchers, None of
\* the regex matchers, str(value) of the numeric matcher
correct_answer_text(matcher) ==
    IF matcher.type \in {"case_sens_plain", "plain"}
    THEN Some(matcher.pattern)
    ELSE IF matcher.type = "float"
    THEN Some(str_of_int(matcher.matcher_desc.value[1]))
    ELSE None

\* matcher.is_case_sensitive
is_case_sensitive(matcher) ==
    matcher.type \in {"case_sens_plain", "case_sens_regex"}

\* parse_matcher: an entry of answers is a string, given here by its
\* matcher type and pattern, or a struct
desc_pattern_type(matcher_desc) ==
    IF "pattern" \in DOMAIN matcher_desc THEN "string" ELSE "struct"

\* get_matcher_class: a matcher class has this type and this pattern type
get_matcher_class(matcher_type, desc_type) ==
    \E i \in 1 .. Len(TEXT_ANSWER_MATCHER_CLASSES) :
        /\ TEXT_ANSWER_MATCHER_CLASSES[i] = matcher_type
        /\ pattern_type(matcher_type) = desc_type


\* TextQuestion.__init__: the page, or the exception raised
TextQuestion_init(answers) ==
    IF Len(answers) = 0 THEN [exc |-> "ValidationError"]
    ELSE IF \E i \in 1 .. Len(answers) :
                ~get_matcher_class(answers[i].type,
                                   desc_pattern_type(answers[i]))
    THEN [exc |-> "ValidationError"]
    ELSE IF ~\E i \in 1 .. Len(answers) : correct_answer_text(answers[i]) # None
    THEN [exc |-> "ValidationError"]
    ELSE [exc |-> "none", matchers |-> answers]

\* s < t for two strings
RECURSIVE str_less(_, _)
str_less(s, t) ==
    IF t = <<>> THEN FALSE
    ELSE IF s = <<>> THEN TRUE
    ELSE IF Head(s) # Head(t) THEN Head(s) < Head(t)
    ELSE str_less(Tail(s), Tail(t))

\* a < b for two tuples (grade, correct_answer_text); None is below every
\* string
tuple_less(a, b) ==
    \/ a[1] < b[1]
    \/ /\ a[1] = b[1]
       /\ \/ a[2] = None /\ b[2] # None
          \/ a[2] # None /\ b[2] # None /\ str_less(a[2][1], b[2][1])

\* max(...) of a nonempty sequence: the first of the largest items
RECURSIVE max(_)
max(items) ==
    IF Len(items) = 1 THEN items[1]
    ELSE LET rest == max(SubSeq(items, 1, Len(items) - 1))
             last == items[Len(items)]
         IN IF tuple_less(rest, last) THEN last ELSE rest

\* django.utils.html.escape of one character
escape_char(c) ==
    CASE c = 38 -> <<38, 97, 109, 112, 59>>
      [] c = 60 -> <<38, 108, 116, 59>>
      [] c = 62 -> <<38, 103, 116, 59>>
      [] c = 34 -> <<38, 113, 117, 111, 116, 59>>
      [] c = 39 -> <<38, 35, 51, 57, 59>>
      [] OTHER -> <<c>>

\* django.utils.html.escape
RECURSIVE escape(_)
escape(s) == IF s = <<>> THEN <<>> ELSE escape_char(Head(s)) \o escape(Tail(s))

TextQuestion_grade_by_last_matcher(self, answer_data) ==
    IF answer_data = None
    THEN AnswerFeedback_init(Some(0), <<"No answer provided.">>,
                             NoNormalizedAnswerAvailable)
    ELSE LET answer == answer_data[1]
             last == self.matchers[Len(self.matchers)]
             normalized_answer ==
                 IF ~\E i \in 1 .. Len(self.matchers) :
                        is_case_sensitive(self.matchers[i])
                 THEN lower(answer) ELSE answer
         IN AnswerFeedback_init(Some(Scale * matcher_grade(last, answer)),
                                None, Some(escape(normalized_answer)))

\* TextQuestion.grade: the AnswerFeedback returned, or the exception of the
\* first matcher whose grade raises; the correctness 0 or 1 is held as 0 or
\* Scale
TextQuestion_grade(self, answer_data) ==
    IF answer_data = None
    THEN AnswerFeedback_init(Some(0), <<"No answer provided.">>,
                             NoNormalizedAnswerAvailable)
    ELSE IF \E i \in 1 .. Len(self.matchers) :
                matcher_grade_raises(self.matchers[i], answer_data[1]) # "none"
    THEN LET first == CHOOSE i \in 1 .. Len(self.matchers) :
                /\ matcher_grade_raises(self.matchers[i], answer_data[1])
                        # "none"
                /\ \A j \in 1 .. i - 1 :
                        matcher_grade_raises(self.matchers[j], answer_data[1])
                            = "none"
         IN [exc |-> matcher_grade_raises(self.matchers[first],
                                          answer_data[1])]
    ELSE LET answer == answer_data[1]
             best == max([i \in 1 .. Len(self.matchers) |->
                            <<matcher_grade(self.matchers[i], answer),
                              correct_answer_text(self.matchers[i])>>])
             correctness == best[1]
             normalized_answer ==
                 IF ~\E i \in 1 .. Len(self.matchers) :
                        is_case_sensitive(self.matchers[i])
                 THEN lower(answer) ELSE answer
         IN AnswerFeedback_init(Some(Scale * correctness), None,
                                Some(escape(normalized_answer)))

\* TextQuestion(vctx, location, page_desc)
NewTextQuestion ==
    /\ text_question = NoObject
    /\ \E answers \in AnswerLists : text_question' = TextQuestion_init(answers)
    /\ UNCHANGED <<text_answer, text_feedback>>
    /\ UNCHANGED exceptTextVars

\* page.grade(page_context, page_data, answer_data, grade_data)
GradeText ==
    /\ text_question.exc = "none"
    /\ \E answer_data \in AnswerData :
        /\ text_answer' = [called |-> TRUE, answer_data |-> answer_data]
        /\ text_feedback' = TextQuestion_grade(text_question, answer_data)
    /\ UNCHANGED text_question
    /\ UNCHANGED exceptTextVars

InitText ==
    /\ IdleMachine
    /\ IdleGradebook
    /\ IdleFeedback
    /\ text_question = NoObject
    /\ text_answer = NoCall
    /\ text_feedback = NoObject
    /\ IdleFloat
    /\ IdleChoice
    /\ IdleCode
    /\ IdleHuman
    /\ IdleUpload
    /\ IdleStruct
    /\ IdleFlow
    /\ IdleTextPage
    /\ IdleExpiration
    /\ IdleAccess
    /\ IdleIm

NextText == NewTextQuestion \/ GradeText

SpecText == InitText /\ [][NextText]_vars

(* ------------------ course/page.py: ChoiceQuestion -------------------- *)

\* Python lists are functions on 0 .. n-1 here, so that indices are those
\* of the code. Choice strings are sequences of tokens: the tag, if any,
\* then the markup.

CORRECT_TAG == "~CORRECT~"

\* the markup of the choice at each index
ChoiceMarkup == <<"Paris", "Rome", "Oslo", "Bern", "Kiev">>

\* page_desc.choices: up to MaxChoices choices, any of them tagged
ChoiceLists ==
    UNION {
        {[i \in 0 .. n - 1 |->
            IF i \in tagged THEN <<CORRECT_TAG, ChoiceMarkup[i + 1]>>
            ELSE <<ChoiceMarkup[i + 1]>>] : tagged \in SUBSET (0 .. n - 1)}
        : n \in 0 .. MaxChoices}

\* the page_desc structs: shuffle is optional
ChoicePageDescs ==
    [choices : ChoiceLists] \cup [choices : ChoiceLists, shuffle : BOOLEAN]

\* len(list)
len(list) == Cardinality(DOMAIN list)

\* choice.startswith(prefix)
startswith(s, prefix) == s # <<>> /\ s[1] = prefix

\* remove_prefix(prefix, s)
remove_prefix(prefix, s) == IF startswith(s, prefix) THEN Tail(s) ELSE s

\* ChoiceQuestion.process_choice_string: the tag removed, the rest as HTML
process_choice_string(s) == [html |-> remove_prefix(CORRECT_TAG, s)]

\* ChoiceQuestion.__init__: the page, or the exception raised
ChoiceQuestion_init(page_desc) ==
    LET correct_choice_count ==
            Cardinality({choice_idx \in DOMAIN page_desc.choices :
                startswith(page_desc.choices[choice_idx], CORRECT_TAG)})
    IN IF correct_choice_count < 1 THEN [exc |-> "ValidationError"]
       ELSE [exc |-> "none", page_desc |-> page_desc]

\* range(n)
range(n) == [i \in 0 .. n - 1 |-> i]

\* the lists random.shuffle can leave in place of list
shuffle(list) ==
    {[i \in DOMAIN list |-> list[p[i]]] :
        p \in {q \in [DOMAIN list -> DOMAIN list] :
                \A i, j \in DOMAIN list : q[i] = q[j] => i = j}}

make_page_data_always_shuffling(self) ==
    {[permutation |-> shuffled] :
        shuffled \in shuffle(range(len(self.page_desc.choices)))}

\* ChoiceQuestion.make_page_data: the page data it can return
make_page_data(self) ==
    LET perm == range(len(self.page_desc.choices))
    IN IF "shuffle" \in DOMAIN self.page_desc /\ self.page_desc.shuffle
       THEN {[permutation |-> shuffled] : shuffled \in shuffle(perm)}
       ELSE {[permutation |-> perm]}

make_choice_form_in_source_order(self, data) ==
    [i \in DOMAIN data.permutation |->
        <<i, process_choice_string(self.page_desc.choices[i])>>]

\* ChoiceQuestion.make_choice_form: the choices of the field of the form
make_choice_form(self, data) ==
    LET permutation == data.permutation
    IN [i \in DOMAIN permutation |->
        <<i, process_choice_string(self.page_desc.choices[permutation[i]])>>]

\* ChoiceQuestion.unpermuted_correct_indices
unpermuted_correct_indices(self) ==
    {i \in DOMAIN self.page_desc.choices :
        startswith(self.page_desc.choices[i], CORRECT_TAG)}

ChoiceQuestion_grade_unpermuted(self, data, answer_data) ==
    IF answer_data = None
    THEN AnswerFeedback_init(Some(0), <<"No answer provided.">>, None)
    ELSE LET choice == answer_data[1]
         IN AnswerFeedback_init(
                Some(IF choice \in unpermuted_correct_indices(self)
                     THEN Scale ELSE 0),
                None,
                Some(process_choice_string(self.page_desc.choices[choice])))

\* ChoiceQuestion.grade: the AnswerFeedback returned; the correctness 0 or 1
\* is held as 0 or Scale
ChoiceQuestion_grade(self, data, answer_data) ==
    IF answer_data = None
    THEN AnswerFeedback_init(Some(0), <<"No answer provided.">>, None)
    ELSE LET permutation == data.permutation
             choice == answer_data[1]
             correctness ==
                 IF permutation[choice] \in unpermuted_correct_indices(self)
                 THEN 1 ELSE 0
         IN AnswerFeedback_init(
                Some(Scale * correctness),
                None,
                Some(process_choice_string(
                        self.page_desc.choices[permutation[choice]])))

\* ChoiceQuestion(vctx, location, page_desc)
NewChoiceQuestion ==
    /\ choice_question = NoObject
    /\ \E page_desc \in ChoicePageDescs :
        choice_question' = ChoiceQuestion_init(page_desc)
    /\ UNCHANGED <<page_data, choice_form, choice_answer, choice_feedback>>
    /\ UNCHANGED exceptChoiceVars

\* the flow makes the page data of a page once, when the page is first
\* visited in a session: page.make_page_data()
MakePageData ==
    /\ choice_question.exc = "none"
    /\ page_data = NoObject
    /\ page_data' \in make_page_data(choice_question)
    /\ UNCHANGED <<choice_question, choice_form, choice_answer, choice_feedback>>
    /\ UNCHANGED exceptChoiceVars

\* the page is rendered: page.make_form(page_context, page_data, ...)
RenderChoiceForm ==
    /\ page_data # NoObject
    /\ choice_form' = [called |-> TRUE,
                       choices |-> make_choice_form(choice_question, page_data)]
    /\ UNCHANGED <<choice_question, page_data, choice_answer, choice_feedback>>
    /\ UNCHANGED exceptChoiceVars

\* page.grade(page_context, page_data, answer_data, grade_data); the form
\* accepts the displayed positions only
GradeChoice ==
    /\ page_data # NoObject
    /\ \E answer_data \in
            {None} \cup {Some(c) : c \in DOMAIN page_data.permutation} :
        /\ choice_answer' = [called |-> TRUE, answer_data |-> answer_data]
        /\ choice_feedback' =
            ChoiceQuestion_grade(choice_question, page_data, answer_data)
    /\ UNCHANGED <<choice_question, page_data, choice_form>>
    /\ UNCHANGED exceptChoiceVars

InitChoice ==
    /\ IdleMachine
    /\ IdleGradebook
    /\ IdleFeedback
    /\ IdleText
    /\ IdleFloat
    /\ choice_question = NoObject
    /\ page_data = NoObject
    /\ choice_form = NoCall
    /\ choice_answer = NoCall
    /\ choice_feedback = NoObject
    /\ IdleCode
    /\ IdleHuman
    /\ IdleUpload
    /\ IdleStruct
    /\ IdleFlow
    /\ IdleTextPage
    /\ IdleExpiration
    /\ IdleAccess
    /\ IdleIm

NextChoice ==
    NewChoiceQuestion \/ MakePageData \/ RenderChoiceForm \/ GradeChoice

SpecChoice == InitChoice /\ [][NextChoice]_vars

(* ------------------ course/page.py: PythonCodeQuestion ---------------- *)

\* the result kinds grade knows
ResultKinds ==
    {"success", "uncaught_error", "setup_compile_error", "setup_error",
     "test_compile_error", "test_error", "timeout", "user_compile_error",
     "user_error"}

\* the result kinds that make grade notify the staff
GradingCodeErrors ==
    {"uncaught_error", "setup_compile_error", "setup_error",
     "test_compile_error", "test_error"}

\* the JSON objects the execution collaborator can answer a run request
\* with: a result, known to grade or not ("bogus"), and optionally points
\* (null or a number) and a traceback
RunResponses ==
    LET results == ResultKinds \cup {"bogus"} IN
    [result : results]
    \cup [result : results, points : CorrectnessValues]
    \cup [result : results, traceback : {"Traceback ..."}]
    \cup [result : results, points : CorrectnessValues,
          traceback : {"Traceback ..."}]

\* how a run request can go: an exception leaves request_python_run (the
\* container cannot be created or started, the connection fails, the clean-up
\* fails), the container never answers the ping, the POST times out on the
\* socket, or the collaborator's answer arrives
RunEvents ==
    {[event |-> "raised"], [event |-> "ping timeout"],
     [event |-> "socket.timeout"]}
    \cup {[event |-> "response", json |-> r] : r \in RunResponses}

\* request_python_run: the dict returned, or the exception raised
request_python_run(run) ==
    CASE run.event = "raised" -> [exc |-> "Exception"]
      [] run.event = "ping timeout" ->
            [exc |-> "none",
             response_dict |-> [result |-> "uncaught_error",
                                message |-> "Timeout waiting for container.",
                                traceback |-> "Traceback ..."]]
      [] run.event = "socket.timeout" ->
            [exc |-> "none", response_dict |-> [result |-> "timeout"]]
      [] run.event = "response" ->
            [exc |-> "none", response_dict |-> run.json]

\* the answers to a code question: None, or the dict holding the code
CodeAnswerData == {None, Some("print(1)")}

PythonCodeQuestion_grade_keeping_points(answer_data, run) ==
    IF answer_data = None
    THEN [mails |-> <<>>,
          feedback |-> AnswerFeedback_init(Some(0), <<"No answer provided.">>,
                                           None)]
    ELSE
    LET user_code == answer_data[1]
        returned == request_python_run(run)
        response_dict ==
            IF returned.exc # "none"
            THEN [result |-> "uncaught_error",
                  message |-> "Error connecting to container",
                  traceback |-> "Traceback ..."]
            ELSE returned.response_dict
        mails ==
            IF response_dict.result \in GradingCodeErrors
            THEN <<[subject |-> "code question execution failed",
                    result |-> response_dict.result]>>
            ELSE <<>>
        correctness ==
            IF "points" \in DOMAIN response_dict THEN response_dict.points ELSE None
        bits ==
            (IF "points" \in DOMAIN response_dict
             THEN <<get_auto_feedback(response_dict.points)>> ELSE <<>>)
            \o (CASE response_dict.result = "success" -> <<>>
                  [] response_dict.result \in GradingCodeErrors ->
                        <<"The grading code failed.">>
                  [] response_dict.result = "timeout" ->
                        <<"Your code took too long to execute.">>
                  [] response_dict.result = "user_compile_error" ->
                        <<"Your code failed to compile.">>
                  [] response_dict.result = "user_error" ->
                        <<"Your code failed with an exception.">>
                  [] OTHER -> <<>>)
            \o (IF "traceback" \in DOMAIN response_dict
                THEN <<"This is the exception traceback:">> ELSE <<>>)
    IN [mails |-> mails,
        feedback |->
            IF response_dict.result \notin ResultKinds
            THEN [exc |-> "RuntimeError"]
            ELSE AnswerFeedback_init(correctness, <<bits>>,
                                     Some(<<"<pre>", user_code>>))]

\* PythonCodeQuestion.grade: the mails sent, and the AnswerFeedback returned
\* or the exception raised; feedback_bits are kept as a list
PythonCodeQuestion_grade(answer_data, run) ==
    IF answer_data = None
    THEN [mails |-> <<>>,
          feedback |-> AnswerFeedback_init(Some(0), <<"No answer provided.">>,
                                           None)]
    ELSE
    LET user_code == answer_data[1]
        returned == request_python_run(run)
        response_dict ==
            IF returned.exc # "none"
            THEN [result |-> "uncaught_error",
                  message |-> "Error connecting to container",
                  traceback |-> "Traceback ..."]
            ELSE returned.response_dict
        mails ==
            IF response_dict.result \in GradingCodeErrors
            THEN <<[subject |-> "code question execution failed",
                    result |-> response_dict.result]>>
            ELSE <<>>
        correctness ==
            IF response_dict.result \in {"timeout", "user_compile_error", "user_error"}
            THEN Some(0)
            ELSE IF "points" \in DOMAIN response_dict THEN response_dict.points
            ELSE None
        bits ==
            (IF "points" \in DOMAIN response_dict
             THEN <<get_auto_feedback(response_dict.points)>> ELSE <<>>)
            \o (CASE response_dict.result = "success" -> <<>>
                  [] response_dict.result \in GradingCodeErrors ->
                        <<"The grading code failed.">>
                  [] response_dict.result = "timeout" ->
                        <<"Your code took too long to execute.">>
                  [] response_dict.result = "user_compile_error" ->
                        <<"Your code failed to compile.">>
                  [] response_dict.result = "user_error" ->
                        <<"Your code failed with an exception.">>
                  [] OTHER -> <<>>)
            \o (IF "traceback" \in DOMAIN response_dict
                THEN <<"This is the exception traceback:">> ELSE <<>>)
    IN [mails |-> mails,
        feedback |->
            IF response_dict.result \notin ResultKinds
            THEN [exc |-> "RuntimeError"]
            ELSE AnswerFeedback_init(correctness, <<bits>>,
                                     Some(<<"<pre>", user_code>>))]

\* page.grade(page_context, page_data, answer_data, grade_data) of a
\* PythonCodeQuestion; no run is requested for an absent answer
GradeCode ==
    /\ \E answer_data \in CodeAnswerData :
       \E run \in IF answer_data = None THEN {NoCall} ELSE RunEvents :
        LET graded == PythonCodeQuestion_grade(answer_data, run)
        IN /\ code_answer' = [called |-> TRUE, answer_data |-> answer_data]
           /\ code_run' = run
           /\ code_mails' = graded.mails
           /\ code_feedback' = graded.feedback
    /\ UNCHANGED exceptCodeVars

InitCode ==
    /\ IdleMachine
    /\ IdleGradebook
    /\ IdleFeedback
    /\ IdleText
    /\ IdleFloat
    /\ IdleChoice
    /\ code_answer = NoCall
    /\ code_run = NoCall
    /\ code_mails = <<>>
    /\ code_feedback = NoObject
    /\ IdleHuman
    /\ IdleUpload
    /\ IdleStruct
    /\ IdleFlow
    /\ IdleTextPage
    /\ IdleExpiration
    /\ IdleAccess
    /\ IdleIm

NextCode == GradeCode

SpecCode == InitCode /\ [][NextCode]_vars

(* ------- course/page.py: PythonCodeQuestionWithHumanTextFeedback ------ *)

\* the page_desc structs: value and human_feedback_value are numbers
HumanPageDescs == [value : 0 .. MaxValue, human_feedback_value : -1 .. MaxValue]

\* grade_percent of the feedback form: a number from 0 to 1000, or None
GradePercents == {None, Some(0), Some(50), Some(100), Some(150)}

\* the grade_data of a page visit: None before a grader saved the form
GradeData ==
    {None}
    \cup {Some(d) : d \in [released : BOOLEAN,
                           grade_percent : GradePercents,
                           feedback_text : {None, Some("Well done.")}]}

\* PythonCodeQuestionWithHumanTextFeedback.__init__ with a validation
\* context: the page, or the exception raised
PythonCodeQuestionWithHumanTextFeedback_init(page_desc) ==
    IF page_desc.human_feedback_value > page_desc.value
    THEN [exc |-> "ValidationError"]
    ELSE [exc |-> "none", page_desc |-> page_desc]

\* AnswerFeedback(correctness=..., feedback=...) for a feedback text that is
\* given, so that none is generated, and a correctness that is None or
\* Some(<<n, d>>), the fraction n/d with d > 0
AnswerFeedback_init_fraction(correctness, feedback) ==
    IF /\ correctness # None
       /\ \/ correctness[1][1] < 0
          \/ correctness[1][1] > correctness[1][2]
    THEN [exc |-> "ValueError"]
    ELSE [exc |-> "none",
          correctness |-> correctness,
          feedback |-> feedback,
          normalized_answer |-> NoNormalizedAnswerAvailable]

HumanFeedback_grade_before_release(self, answer_data, grade_data, run) ==
    IF answer_data = None
    THEN [code |-> [mails |-> <<>>, feedback |-> NoObject],
          feedback |-> AnswerFeedback_init(Some(0), <<"No answer provided.">>,
                                           NoNormalizedAnswerAvailable)]
    ELSE
    LET code == PythonCodeQuestion_grade(answer_data, run)
        value == self.page_desc.value
        human_feedback_value == self.page_desc.human_feedback_value
    IN [code |-> code,
        feedback |->
            IF code.feedback.exc # "none" THEN code.feedback
            ELSE IF /\ code.feedback.correctness # None
                    /\ grade_data # None
                    /\ grade_data[1].grade_percent # None
            THEN IF value = 0 THEN [exc |-> "ZeroDivisionError"]
                 ELSE AnswerFeedback_init_fraction(
                        Some(<<100 * code.feedback.correctness[1]
                                    * (value - human_feedback_value)
                                + Scale * grade_data[1].grade_percent[1]
                                    * human_feedback_value,
                               100 * Scale * value>>),
                        <<"feedback-code-with-human.html">>)
            ELSE AnswerFeedback_init_fraction(
                        None, <<"feedback-code-with-human.html">>)]

\* PythonCodeQuestionWithHumanTextFeedback.grade: what the call of
\* PythonCodeQuestion.grade did, and the AnswerFeedback returned or the
\* exception raised. The automatic correctness is k/Scale and grade_percent
\* is a float, so the arithmetic is that of fractions.
HumanFeedback_grade(self, answer_data, grade_data, run) ==
    IF answer_data = None
    THEN [code |-> [mails |-> <<>>, feedback |-> NoObject],
          feedback |-> AnswerFeedback_init(Some(0), <<"No answer provided.">>,
                                           NoNormalizedAnswerAvailable)]
    ELSE
    LET released_grade_data ==
            IF grade_data # None /\ ~grade_data[1].released THEN None
            ELSE grade_data
        code == PythonCodeQuestion_grade(answer_data, run)
        value == self.page_desc.value
        human_feedback_value == self.page_desc.human_feedback_value
        rendered ==
            <<[template |-> "course/feedback-code-with-human.html",
               code_feedback |-> code.feedback,
               human_feedback_text |->
                    IF released_grade_data = None THEN None
                    ELSE released_grade_data[1].feedback_text,
               human_feedback_percentage |->
                    IF released_grade_data = None THEN None
                    ELSE released_grade_data[1].grade_percent]>>
    IN [code |-> code,
        feedback |->
            IF code.feedback.exc # "none" THEN code.feedback
            ELSE IF /\ code.feedback.correctness # None
                    /\ released_grade_data # None
                    /\ released_grade_data[1].grade_percent # None
            THEN IF value = 0 THEN [exc |-> "ZeroDivisionError"]
                 ELSE AnswerFeedback_init_fraction(
                        Some(<<100 * code.feedback.correctness[1]
                                    * (value - human_feedback_value)
                                + Scale * released_grade_data[1].grade_percent[1]
                                    * human_feedback_value,
                               100 * Scale * value>>),
                        rendered)
            ELSE IF /\ human_feedback_value = value
                    /\ released_grade_data # None
                    /\ released_grade_data[1].grade_percent # None
            THEN AnswerFeedback_init_fraction(
                    Some(<<released_grade_data[1].grade_percent[1], 100>>),
                    rendered)
            ELSE AnswerFeedback_init_fraction(None, rendered)]

\* PythonCodeQuestionWithHumanTextFeedback(vctx, location, page_desc)
NewHumanFeedbackPage ==
    /\ human_page = NoObject
    /\ \E page_desc \in HumanPageDescs :
        human_page' = PythonCodeQuestionWithHumanTextFeedback_init(page_desc)
    /\ UNCHANGED <<human_grade_data, human_feedback>>
    /\ UNCHANGED <<codeVars, exceptHumanVars>>

\* page.grade(page_context, page_data, answer_data, grade_data) of the page;
\* no run is requested for an absent answer
GradeWithHumanFeedback ==
    /\ human_page.exc = "none"
    /\ human_feedback = NoObject
    /\ \E answer_data \in CodeAnswerData, grade_data \in GradeData :
       \E run \in IF answer_data = None THEN {NoCall} ELSE RunEvents :
        LET graded == HumanFeedback_grade(human_page, answer_data,
                                          grade_data, run)
        IN /\ code_answer' = [called |-> TRUE, answer_data |-> answer_data]
           /\ code_run' = run
           /\ code_mails' = graded.code.mails
           /\ code_feedback' = graded.code.feedback
           /\ human_grade_data' = [called |-> TRUE, grade_data |-> grade_data]
           /\ human_feedback' = graded.feedback
    /\ UNCHANGED human_page
    /\ UNCHANGED exceptHumanVars

InitHuman ==
    /\ IdleMachine
    /\ IdleGradebook
    /\ IdleFeedback
    /\ IdleText
    /\ IdleFloat
    /\ IdleChoice
    /\ IdleCode
    /\ IdleUpload
    /\ IdleStruct
    /\ IdleFlow
    /\ IdleTextPage
    /\ IdleExpiration
    /\ IdleAccess
    /\ IdleIm
    /\ human_page = NoObject
    /\ human_grade_data = NoCall
    /\ human_feedback = NoObject

NextHuman == NewHumanFeedbackPage \/ GradeWithHumanFeedback

SpecHuman == InitHuman /\ [][NextHuman]_vars

(* ---------- course/page.py: PageBaseWithHumanTextFeedback ------------- *)

\* what a grader may type into the grade_percent field: nothing, or a number
PostedGradePercents ==
    {None, Some(-1), Some(0), Some(50), Some(100), Some(150), Some(1000),
     Some(1001)}

\* the data posted with a HumanTextFeedbackForm (notes are left out: grade
\* does not read them)
PostData ==
    [released : BOOLEAN,
     grade_percent : PostedGradePercents,
     feedback_text : {None, Some("Well done.")},
     notify : BOOLEAN]

\* HumanTextFeedbackForm(post_data, files_data).is_valid(): grade_percent is
\* a FloatField with min_value=0 and max_value=1000 that is not required
HumanTextFeedbackForm_is_valid(post_data) ==
    \/ post_data.grade_percent = None
    \/ /\ post_data.grade_percent[1] >= 0
       /\ post_data.grade_percent[1] <= 1000

\* update_grade_data_from_grading_form: the attributes in grade_data_attrs
\* are copied from the cleaned data of the form
grade_data_attrs == {"released", "grade_percent", "feedback_text"}
update_grade_data_from_grading_form(grading_form) ==
    Some([k \in grade_data_attrs |-> grading_form[k]])

\* get_auto_feedback for the correctness g/100
get_auto_feedback_of_percent(g) ==
    IF g = 0 THEN <<"Your answer is not correct.">>
    ELSE IF g = 100 THEN <<"Your answer is correct.">>
    ELSE IF g > 50
    THEN <<"Your answer is mostly correct. (%.1f %%)", 10 * g>>
    ELSE <<"Your answer is somewhat correct. (%.1f %%)", 10 * g>>

\* the answers of a file upload page: None, or the uploaded file
UploadAnswerData == {None, Some("base64 data")}

\* PageBaseWithHumanTextFeedback.grade: the value returned (None, or an
\* AnswerFeedback), or the exception raised
PageBaseWithHumanTextFeedback_grade(answer_data, grade_data) ==
    IF answer_data = None
    THEN [exc |-> "none",
          returned |-> Some(AnswerFeedback_init(
                Some(0), <<"No answer provided.">>,
                NoNormalizedAnswerAvailable))]
    ELSE IF grade_data = None THEN [exc |-> "none", returned |-> None]
    ELSE IF ~grade_data[1].released THEN [exc |-> "none", returned |-> None]
    ELSE IF grade_data[1].grade_percent # None
    THEN LET g == grade_data[1].grade_percent[1]
             feedback_text ==
                <<get_auto_feedback_of_percent(g),
                  grade_data[1].feedback_text>>
             made == AnswerFeedback_init_fraction(
                        Some(<<g, 100>>), feedback_text)
         IN IF made.exc # "none" THEN made
            ELSE [exc |-> "none", returned |-> Some(made)]
    ELSE [exc |-> "none", returned |-> None]

\* a grader posts the grading form; a valid form updates the grade_data and,
\* if notify is checked, mails the feedback text to the participant
PostGradingForm ==
    /\ \E post_data \in PostData :
        LET valid == HumanTextFeedbackForm_is_valid(post_data)
        IN /\ upload_form' =
                [called |-> TRUE, post_data |-> post_data, valid |-> valid,
                 notified |-> valid /\ post_data.notify]
           /\ upload_grade_data' =
                IF valid THEN update_grade_data_from_grading_form(post_data)
                ELSE upload_grade_data
    /\ UNCHANGED <<upload_answer, upload_feedback>>
    /\ UNCHANGED exceptUploadVars

\* page.grade(page_context, page_data, answer_data, grade_data)
GradeUpload ==
    /\ \E answer_data \in UploadAnswerData :
        /\ upload_answer' = [called |-> TRUE, answer_data |-> answer_data,
                             grade_data |-> upload_grade_data]
        /\ upload_feedback' =
            PageBaseWithHumanTextFeedback_grade(answer_data,
                                                upload_grade_data)
    /\ UNCHANGED <<upload_grade_data, upload_form>>
    /\ UNCHANGED exceptUploadVars

InitUpload ==
    /\ IdleMachine
    /\ IdleGradebook
    /\ IdleFeedback
    /\ IdleText
    /\ IdleFloat
    /\ IdleChoice
    /\ IdleCode
    /\ IdleHuman
    /\ IdleStruct
    /\ IdleFlow
    /\ IdleTextPage
    /\ IdleExpiration
    /\ IdleAccess
    /\ IdleIm
    /\ upload_grade_data = None
    /\ upload_form = NoCall
    /\ upload_answer = NoCall
    /\ upload_feedback = NoObject

NextUpload == PostGradingForm \/ GradeUpload

SpecUpload == InitUpload /\ [][NextUpload]_vars

(* ------------------ course/validation.py: validate_struct ------------- *)

MaxAttrs == 2           \* entries of an attribute validation list

\* A descriptor object is a function from its attribute names to values,
\* and a value is a record with a field type, the name of its Python type.
\* The names of an object that start with an underscore:
PrivateNames == {"_field_names"}
startswith_underscore(name) == name \in PrivateNames

\* isinstance(val, allowed_types) for a tuple of types: bool is a subclass
\* of int
isinstance(val, allowed_types) ==
    \/ val.type \in allowed_types
    \/ val.type = "bool" /\ "int" \in allowed_types

\* "%s: ..." % (location, ...): the message of a ValidationError starts with
\* the location
ValidationError(location, message) ==
    [exc |-> "ValidationError", location |-> location, message |-> message]

\* the loop over one attribute validation list, from its entry i on: the
\* attributes still present after it, or the exception raised. An entry is
\* [attr, types] with types None for a plain name and Some(set of types)
\* for a tuple (name, type)
RECURSIVE validate_attr_list(_, _, _, _, _, _)
validate_attr_list(location, obj, attr_list, i, required, present_attrs) ==
    IF i > Len(attr_list)
    THEN [exc |-> "none", present_attrs |-> present_attrs]
    ELSE LET attr == attr_list[i].attr
             allowed_types == attr_list[i].types
         IN IF attr \notin present_attrs
            THEN IF required
                 THEN ValidationError(location, <<"missing", attr>>)
                 ELSE validate_attr_list(location, obj, attr_list, i + 1,
                                         required, present_attrs)
            ELSE IF allowed_types = None
            THEN \* isinstance(val, None)
                 [exc |-> "TypeError"]
            ELSE IF ~isinstance(obj[attr], allowed_types[1])
            THEN ValidationError(location, <<"wrong type", attr>>)
            ELSE validate_attr_list(location, obj, attr_list, i + 1,
                                    required, present_attrs \ {attr})

\* validate_struct(location, obj, required_attrs, allowed_attrs): returns,
\* or raises
validate_struct(location, obj, required_attrs, allowed_attrs) ==
    LET present_attrs ==
            {name \in DOMAIN obj : ~startswith_underscore(name)}
        after_required ==
            validate_attr_list(location, obj, required_attrs, 1, TRUE,
                               present_attrs)
    IN IF after_required.exc # "none" THEN after_required
       ELSE LET after_allowed ==
                    validate_attr_list(location, obj, allowed_attrs, 1,
                                       FALSE, after_required.present_attrs)
            IN IF after_allowed.exc # "none" THEN after_allowed
               ELSE IF after_allowed.present_attrs # {}
               THEN ValidationError(location,
                        <<"extraneous", after_allowed.present_attrs>>)
               ELSE [exc |-> "none"]

\* the descriptors of the model: objects with some of these attributes,
\* of these types
StructNames == {"id", "pages", "_field_names"}
StructTypes == {"str", "int", "bool"}
StructObjs ==
    UNION {[names -> [type : StructTypes]] : names \in SUBSET StructNames}

\* attribute validation lists over the public names, each name once
AttrRecs ==
    [attr : StructNames \ PrivateNames,
     types : {None, Some({"str"}), Some({"int"})}]
AttrLists ==
    {l \in UNION {[1 .. n -> AttrRecs] : n \in 0 .. MaxAttrs} :
        \A i, j \in 1 .. Len(l) : l[i].attr = l[j].attr => i = j}
AttrListPairs ==
    {p \in AttrLists \X AttrLists :
        /\ Len(p[1]) + Len(p[2]) <= MaxAttrs
        /\ \A i \in 1 .. Len(p[1]), j \in 1 .. Len(p[2]) :
                p[1][i].attr # p[2][j].attr}

\* validate_struct("flows/quiz.yml", obj, required_attrs, allowed_attrs)
ValidateStruct ==
    /\ struct_call = NoCall
    /\ \E obj \in StructObjs, lists \in AttrListPairs :
        /\ struct_call' =
            [called |-> TRUE, location |-> "flows/quiz.yml", obj |-> obj,
             required_attrs |-> lists[1], allowed_attrs |-> lists[2]]
        /\ struct_result' =
            validate_struct("flows/quiz.yml", obj, lists[1], lists[2])
    /\ UNCHANGED exceptStructVars

InitStruct ==
    /\ IdleMachine
    /\ IdleGradebook
    /\ IdleFeedback
    /\ IdleText
    /\ IdleFloat
    /\ IdleChoice
    /\ IdleCode
    /\ IdleHuman
    /\ IdleUpload
    /\ IdleFlow
    /\ IdleTextPage
    /\ IdleExpiration
    /\ IdleAccess
    /\ IdleIm
    /\ struct_call = NoCall
    /\ struct_result = NoObject

NextStruct == ValidateStruct

SpecStruct == InitStruct /\ [][NextStruct]_vars

(* ---------------- course/validation.py: validate_flow_desc ------------ *)

MaxGroups == 2          \* groups of a flow descriptor
MaxPages == 2           \* pages of a group

\* identifiers as YAML gives them: a string (its character codes), or a
\* number
StrId(s) == [type |-> "str", v |-> s]
IntId(n) == [type |-> "int", v |-> <<n>>]

\* ID_RE = r"^[\w]+$": letters, digits and the underscore
word_char(c) ==
    c \in (48 .. 57) \cup (65 .. 90) \cup {95} \cup (97 .. 122)
ID_RE_match(s) == Len(s) > 0 /\ \A i \in 1 .. Len(s) : word_char(s[i])

validate_identifier(location, s) ==
    IF ~ID_RE_match(s)
    THEN ValidationError(location, <<"invalid identifier">>)
    ELSE [exc |-> "none"]

\* "%d" % (i+1)
decimal(n) == <<"0", "1", "2", "3", "4", "5">>[n + 1]

\* page descriptors: an id, and whether instantiate_flow_page makes a page
\* of the descriptor or raises
FlowPageDescs ==
    {[id |-> StrId(<<112>>), instantiates |-> TRUE],
     [id |-> StrId(<<113>>), instantiates |-> TRUE],
     [id |-> StrId(<<112>>), instantiates |-> FALSE],
     [id |-> StrId(<<112, 45>>), instantiates |-> TRUE]}

List(items) == [type |-> "list", items |-> items]
Str == [type |-> "str"]

FlowGroupIds == {StrId(<<97>>), StrId(<<98>>), IntId(1)}
FlowGroups ==
    {[id |-> id, pages |-> List(pages)] :
        id \in FlowGroupIds,
        pages \in UNION {[1 .. n -> FlowPageDescs] : n \in 0 .. MaxPages}}

\* access rules: the permissions, and the roles if the rule has any
FlowAccessRules ==
    {[permissions |-> List(<<"view">>)],
     [permissions |-> List(<<"fly">>)],
     [permissions |-> List(<<"view">>), roles |-> List(<<"student">>)]}
FlowAccessRuleLists == {<<>>} \cup {<<rule>> : rule \in FlowAccessRules}

\* flow descriptors with well-typed title, description and completion_text
FlowDescs ==
    LET base(groups) ==
            [title |-> Str, description |-> Str, completion_text |-> Str,
             groups |-> List(groups)]
        with_rules(groups, rules) ==
            [title |-> Str, description |-> Str, completion_text |-> Str,
             groups |-> List(groups), access_rules |-> List(rules)]
        GroupLists == UNION {[1 .. n -> FlowGroups] : n \in 0 .. MaxGroups}
    IN {base(groups) : groups \in GroupLists}
       \cup {with_rules(groups, rules) :
                groups \in GroupLists, rules \in FlowAccessRuleLists}

hasattr(obj, name) == name \in DOMAIN obj

\* the first exception raised by the calls results[1], results[2], ..., or
\* no exception
RECURSIVE first_raised(_, _)
first_raised(results, i) ==
    IF i > Len(results) THEN [exc |-> "none"]
    ELSE IF results[i].exc # "none" THEN results[i]
    ELSE first_raised(results, i + 1)

\* FLOW_PERMISSION_CHOICES, as a set of permissions
FLOW_PERMISSIONS ==
    {"view", "submit_answer", "end_session", "change_answer",
     "see_correctness", "see_answer", "set_roll_over_expiration_mode"}

validate_flow_permission(location, permission) ==
    IF permission \notin FLOW_PERMISSIONS
    THEN ValidationError(location, <<"invalid flow permission">>)
    ELSE [exc |-> "none"]

validate_role(location, role) ==
    IF role \notin {"instructor", "ta", "student", "unenrolled"}
    THEN ValidationError(location, <<"invalid role">>)
    ELSE [exc |-> "none"]

validate_flow_access_rule(location, rule) ==
    first_raised(
        <<validate_struct(location, rule,
            <<[attr |-> "permissions", types |-> Some({"list"})]>>,
            <<[attr |-> "roles", types |-> Some({"list"})],
              [attr |-> "start", types |-> Some({"date", "str"})],
              [attr |-> "end", types |-> Some({"date", "str"})],
              [attr |-> "credit_percent", types |-> Some({"int", "float"})],
              [attr |-> "time_limit", types |-> Some({"str"})],
              [attr |-> "allowed_visit_count", types |-> Some({"int"})]>>),
          first_raised(
            [i \in 1 .. Len(rule.permissions.items) |->
                validate_flow_permission(
                    location \o <<"permission", decimal(i)>>,
                    rule.permissions.items[i])], 1),
          IF hasattr(rule, "roles")
          THEN first_raised(
                [i \in 1 .. Len(rule.roles.items) |->
                    validate_role(location \o <<"role", decimal(i)>>,
                                  rule.roles.items[i])], 1)
          ELSE [exc |-> "none"]>>, 1)

\* instantiate_flow_page raises for a descriptor it cannot make a page of,
\* and every exception it raises is turned into a ValidationError
validate_flow_page(location, page_desc) ==
    first_raised(
        <<validate_identifier(location, page_desc.id.v),
          IF page_desc.instantiates THEN [exc |-> "none"]
          ELSE ValidationError(location,
                               <<"could not instantiate flow page">>)>>, 1)

\* the page ids of pages[1 .. i - 1] are distinct and pages[i] repeats one
first_repeated_id(pages, i) ==
    /\ \A j, k \in 1 .. i - 1 : pages[j].id = pages[k].id => j = k
    /\ \E j \in 1 .. i - 1 : pages[j].id = pages[i].id

validate_flow_group(location, grp) ==
    first_raised(
        <<validate_struct(location, grp,
            <<[attr |-> "id", types |-> Some({"str"})],
              [attr |-> "pages", types |-> Some({"list"})]>>, <<>>),
          first_raised(
            [i \in 1 .. Len(grp.pages.items) |->
                validate_flow_page(
                    location \o <<"page", decimal(i)>>,
                    grp.pages.items[i])], 1),
          validate_identifier(location, grp.id.v),
          IF \E i \in 1 .. Len(grp.pages.items) :
                first_repeated_id(grp.pages.items, i)
          THEN ValidationError(location, <<"page id not unique">>)
          ELSE [exc |-> "none"]>>, 1)

\* validate_flow_desc(ctx, location, flow_desc): returns, or raises
validate_flow_desc(location, flow_desc) ==
    LET groups == flow_desc.groups.items
        access_rules == flow_desc.access_rules.items
        last_rule == access_rules[Len(access_rules)]
        non_emptiness(i) ==
            IF Len(groups[i].pages.items) > 0 THEN [exc |-> "none"]
            ELSE IF groups[i].id.type = "int"
            THEN ValidationError(
                    location \o <<"group", decimal(i), groups[i].id>>,
                    <<"no pages found">>)
            ELSE \* "('%d')" % grp.id for an id that is not a number
                 [exc |-> "TypeError"]
    IN first_raised(
        <<validate_struct(location, flow_desc,
            <<[attr |-> "title", types |-> Some({"str"})],
              [attr |-> "description", types |-> Some({"str"})],
              [attr |-> "groups", types |-> Some({"list"})],
              [attr |-> "completion_text", types |-> Some({"str"})]>>,
            <<[attr |-> "access_rules", types |-> Some({"list"})]>>),
          IF hasattr(flow_desc, "access_rules")
          THEN first_raised(
                <<first_raised(
                    [i \in 1 .. Len(access_rules) |->
                        validate_flow_access_rule(
                            location \o <<"access rule", decimal(i)>>,
                            access_rules[i])], 1),
                  IF Len(access_rules) = 0 THEN [exc |-> "IndexError"]
                  ELSE IF \/ hasattr(last_rule, "roles")
                          \/ hasattr(last_rule, "start")
                          \/ hasattr(last_rule, "end")
                  THEN ValidationError(location,
                        <<"last access rule must set default access">>)
                  ELSE [exc |-> "none"]>>, 1)
          ELSE [exc |-> "none"],
          first_raised([i \in 1 .. Len(groups) |-> non_emptiness(i)], 1),
          IF Len(groups) = 0
          THEN ValidationError(location, <<"no pages found">>)
          ELSE [exc |-> "none"],
          IF \E i, j \in 1 .. Len(groups) : i # j /\ groups[i].id = groups[j].id
          THEN ValidationError(location, <<"group id not unique">>)
          ELSE [exc |-> "none"],
          first_raised(
            [i \in 1 .. Len(groups) |->
                validate_flow_group(
                    location \o <<"group", decimal(i), groups[i].id>>,
                    groups[i])], 1)>>, 1)

\* validate_flow_desc(ctx, "flows/quiz.yml", flow_desc)
ValidateFlowDesc ==
    /\ flow_call = NoCall
    /\ \E flow_desc \in FlowDescs :
        /\ flow_call' = [called |-> TRUE, location |-> <<"flows/quiz.yml">>,
                         flow_desc |-> flow_desc]
        /\ flow_result' = validate_flow_desc(<<"flows/quiz.yml">>, flow_desc)
    /\ UNCHANGED exceptFlowVars

InitFlow ==
    /\ IdleMachine
    /\ IdleGradebook
    /\ IdleFeedback
    /\ IdleText
    /\ IdleFloat
    /\ IdleChoice
    /\ IdleCode
    /\ IdleHuman
    /\ IdleUpload
    /\ IdleStruct
    /\ IdleTextPage
    /\ IdleExpiration
    /\ IdleAccess
    /\ IdleIm
    /\ flow_call = NoCall
    /\ flow_result = NoObject

NextFlow == ValidateFlowDesc

SpecFlow == InitFlow /\ [][NextFlow]_vars

(* -------- course/page.py: TextQuestion with its form and answer ------- *)

\* the entries of page_desc.answers of the pages below: "<plain>",
\* "<plain>a", "<regex>", "<regex>a", and numeric matcher structs without
\* tolerance, with atol 0.5, with rtol 0.25 and with both
TextPageMatcherDescs ==
    [type : {"plain", "regex"}, pattern : {<<>>, <<97>>}]
    \cup {[type |-> "float", matcher_desc |-> d] :
            d \in {fd \in FloatMatcherDescs :
                    "atol" \in DOMAIN fd => fd.atol = <<1, 2>>}}

TextPageAnswerLists ==
    UNION {[1 .. n -> TextPageMatcherDescs] : n \in 0 .. MaxMatchers}

\* what a participant posts: "", "a", "a ", "0", "10", "nan"
PostedAnswers ==
    {<<>>, <<97>>, <<97, 32>>, <<48>>, <<49, 48>>, <<110, 97, 110>>}

\* str.strip() of blanks
RECURSIVE strip(_)
strip(s) ==
    IF s = <<>> THEN s
    ELSE IF Head(s) = 32 THEN strip(Tail(s))
    ELSE IF s[Len(s)] = 32 THEN strip(SubSeq(s, 1, Len(s) - 1))
    ELSE s

\* TextAnswerForm(matchers, post_data).is_valid(): answer is a required
\* CharField, and clean hands the answer to the validate of every matcher
TextAnswerForm_is_valid(matchers, answer) ==
    /\ answer # <<>>
    /\ \A i \in 1 .. Len(matchers) : matcher_validate(matchers[i], answer)

\* TextQuestion.correct_answer: the text, or the exception raised; the
\* assert fails on a text that is empty
TextQuestion_correct_answer(self) ==
    LET supplying == {i \in 1 .. Len(self.matchers) :
                        correct_answer_text(self.matchers[i]) # None}
        first == CHOOSE i \in supplying : \A j \in supplying : i <= j
        last == Len(self.matchers)
        unspec_correct_answer_text ==
            IF supplying # {} THEN correct_answer_text(self.matchers[first])
            ELSE correct_answer_text(self.matchers[last])
    IN IF unspec_correct_answer_text = None
          \/ unspec_correct_answer_text[1] = <<>>
       THEN [exc |-> "AssertionError"]
       ELSE [exc |-> "none",
             text |-> <<"A correct answer is: '%s'.",
                        unspec_correct_answer_text[1]>>]

\* TextQuestion(vctx, location, page_desc)
NewTextPage ==
    /\ textpage_question = NoObject
    /\ \E answers \in TextPageAnswerLists :
        textpage_question' = TextQuestion_init(answers)
    /\ UNCHANGED <<textpage_post, textpage_feedback, textpage_correct_answer>>
    /\ UNCHANGED exceptTextPageVars

\* page.post_form(...) and form.is_valid()
PostTextForm ==
    /\ textpage_question.exc = "none"
    /\ \E answer \in PostedAnswers :
        textpage_post' =
            [called |-> TRUE, answer |-> answer,
             valid |-> TextAnswerForm_is_valid(textpage_question.matchers,
                                               answer)]
    /\ textpage_feedback' = NoObject
    /\ UNCHANGED <<textpage_question, textpage_correct_answer>>
    /\ UNCHANGED exceptTextPageVars

\* page.grade(page_context, page_data, answer_data, grade_data), where
\* answer_data is what page.answer_data(...) made of the form last posted,
\* if the form accepted it, and None otherwise
GradeTextPage ==
    /\ textpage_question.exc = "none"
    /\ textpage_feedback' =
        TextQuestion_grade(
            textpage_question,
            IF textpage_post # NoCall /\ textpage_post.valid
            THEN Some(strip(textpage_post.answer)) ELSE None)
    /\ UNCHANGED <<textpage_question, textpage_post, textpage_correct_answer>>
    /\ UNCHANGED exceptTextPageVars

\* page.correct_answer(page_context, page_data, answer_data, grade_data)
CorrectAnswer ==
    /\ textpage_question.exc = "none"
    /\ textpage_correct_answer' =
        TextQuestion_correct_answer(textpage_question)
    /\ UNCHANGED <<textpage_question, textpage_post, textpage_feedback>>
    /\ UNCHANGED exceptTextPageVars

InitTextPage ==
    /\ IdleMachine
    /\ IdleGradebook
    /\ IdleFeedback
    /\ IdleText
    /\ IdleFloat
    /\ IdleChoice
    /\ IdleCode
    /\ IdleHuman
    /\ IdleUpload
    /\ IdleStruct
    /\ IdleFlow
    /\ IdleExpiration
    /\ IdleAccess
    /\ IdleIm
    /\ textpage_question = NoObject
    /\ textpage_post = NoCall
    /\ textpage_feedback = NoObject
    /\ textpage_correct_answer = NoObject

NextTextPage == NewTextPage \/ PostTextForm \/ GradeTextPage \/ CorrectAnswer

SpecTextPage == InitTextPage /\ [][NextTextPage]_vars

(* ------------ course/constants.py: is_expiration_mode_allowed --------- *)

\* class flow_session_expiration_mode
flow_session_expiration_mode == [end |-> "end", roll_over |-> "roll_over"]

\* the modes a caller may pass: the two of the class, and two that are not
ExpirationModes == {"end", "roll_over", "rollover", ""}

is_expiration_mode_allowed_by_default(expmode, permissions) ==
    IF expmode = flow_session_expiration_mode.roll_over
    THEN [exc |-> "none",
          returned |-> "set_roll_over_expiration_mode" \in permissions]
    ELSE [exc |-> "none", returned |-> TRUE]

\* is_expiration_mode_allowed(expmode, permissions): the value returned, or
\* the exception raised
is_expiration_mode_allowed(expmode, permissions) ==
    IF expmode = flow_session_expiration_mode.roll_over
    THEN IF "set_roll_over_expiration_mode" \in permissions
         THEN [exc |-> "none", returned |-> TRUE]
         ELSE [exc |-> "none", returned |-> FALSE]
    ELSE IF expmode = flow_session_expiration_mode.end
    THEN [exc |-> "none", returned |-> TRUE]
    ELSE [exc |-> "ValueError"]

\* is_expiration_mode_allowed(expmode, permissions)
IsExpirationModeAllowed ==
    /\ expiration_call = NoCall
    /\ \E expmode \in ExpirationModes, permissions \in SUBSET FLOW_PERMISSIONS :
        /\ expiration_call' = [called |-> TRUE, expmode |-> expmode,
                               permissions |-> permissions]
        /\ expiration_result' = is_expiration_mode_allowed(expmode, permissions)
    /\ UNCHANGED exceptExpirationVars

InitExpiration ==
    /\ IdleMachine
    /\ IdleGradebook
    /\ IdleFeedback
    /\ IdleText
    /\ IdleFloat
    /\ IdleChoice
    /\ IdleCode
    /\ IdleHuman
    /\ IdleUpload
    /\ IdleStruct
    /\ IdleFlow
    /\ IdleTextPage
    /\ IdleAccess
    /\ IdleIm
    /\ expiration_call = NoCall
    /\ expiration_result = NoObject

NextExpiration == IsExpirationModeAllowed

SpecExpiration == InitExpiration /\ [][NextExpiration]_vars

(* ------------- course/page.py: PageBase and its access rules ---------- *)

MaxPermissions == 2     \* entries of add_permissions and of remove_permissions

\* the entries of the lists: two flow permissions and a name that is none
PagePermissions == {"view", "see_answer", "fly"}

PermissionLists ==
    UNION {[1 .. n -> PagePermissions] : n \in 0 .. MaxPermissions}

\* the access_rules structs: each of the two lists is optional
AccessRules ==
    {[x \in {} |-> {}]}
    \cup {[add_permissions |-> List(a)] : a \in PermissionLists}
    \cup {[remove_permissions |-> List(r)] : r \in PermissionLists}
    \cup {[add_permissions |-> List(a), remove_permissions |-> List(r)] :
            a \in PermissionLists, r \in PermissionLists}

\* a Struct that is the value of an attribute
Struct(attrs) == [type |-> "Struct", attrs |-> attrs]

\* page descriptors: id and type, and access_rules if the page has any
PageDescs ==
    {[id |-> Str, type |-> Str]}
    \cup {[id |-> Str, type |-> Str, access_rules |-> Struct(rules)] :
            rules \in AccessRules}

\* the loop "for attr in [...]: if hasattr(access_rules, attr): for perm in
\* access_rules.add_permissions: validate_flow_permission(...)" for one attr
validate_permissions_of(location, access_rules, attr) ==
    IF ~hasattr(access_rules, attr) THEN [exc |-> "none"]
    ELSE IF ~hasattr(access_rules, "add_permissions")
    THEN [exc |-> "AttributeError"]
    ELSE first_raised(
            [i \in 1 .. Len(access_rules.add_permissions.items) |->
                validate_flow_permission(
                    location \o <<"access rules", attr>>,
                    access_rules.add_permissions.items[i])], 1)

\* PageBase.__init__(vctx, location, page_desc) for a page_desc that is a
\* Struct: the page, or the exception raised; validates is whether a
\* validation context is given
PageBase_init(validates, location, page_desc) ==
    LET access_rules == page_desc.access_rules.attrs
        raised ==
            IF ~validates THEN [exc |-> "none"]
            ELSE first_raised(
                <<validate_struct(location, page_desc,
                    <<[attr |-> "id", types |-> Some({"str"})],
                      [attr |-> "type", types |-> Some({"str"})]>>,
                    <<[attr |-> "access_rules", types |-> Some({"Struct"})]>>),
                  IF ~hasattr(page_desc, "access_rules") THEN [exc |-> "none"]
                  ELSE first_raised(
                    <<validate_struct(location \o <<"access rules">>,
                        access_rules, <<>>,
                        <<[attr |-> "add_permissions",
                           types |-> Some({"list"})],
                          [attr |-> "remove_permissions",
                           types |-> Some({"list"})]>>),
                      validate_permissions_of(location, access_rules,
                                              "add_permissions"),
                      validate_permissions_of(location, access_rules,
                                              "remove_permissions")>>, 1)>>,
                1)
    IN IF raised.exc # "none" THEN raised
       ELSE [exc |-> "none", validated |-> validates, page_desc |-> page_desc]

\* the set of the entries of a list
entries(list) == {list.items[i] : i \in 1 .. Len(list.items)}

get_modified_permissions_for_page_removing_first(self, permissions) ==
    LET access_rules == self.page_desc.access_rules.attrs
        has_rules == hasattr(self.page_desc, "access_rules")
        removed ==
            IF has_rules /\ hasattr(access_rules, "remove_permissions")
            THEN permissions \ entries(access_rules.remove_permissions)
            ELSE permissions
        added ==
            IF has_rules /\ hasattr(access_rules, "add_permissions")
            THEN removed \cup entries(access_rules.add_permissions)
            ELSE removed
    IN [returned |-> added, argument |-> permissions]

\* get_modified_permissions_for_page(permissions): the set returned, and
\* the collection of the caller after the call; the method works on
\* set(permissions), a copy
get_modified_permissions_for_page(self, permissions) ==
    LET access_rules == self.page_desc.access_rules.attrs
        has_rules == hasattr(self.page_desc, "access_rules")
        added ==
            IF has_rules /\ hasattr(access_rules, "add_permissions")
            THEN permissions \cup entries(access_rules.add_permissions)
            ELSE permissions
        removed ==
            IF has_rules /\ hasattr(access_rules, "remove_permissions")
            THEN added \ entries(access_rules.remove_permissions)
            ELSE added
    IN [returned |-> removed, argument |-> permissions]

\* PageBase(vctx, location, page_desc), with or without validation context
NewPage ==
    /\ access_page = NoObject
    /\ \E validates \in BOOLEAN, page_desc \in PageDescs :
        access_page' =
            [exc |-> "called", validates |-> validates,
             page_desc |-> page_desc,
             made |-> PageBase_init(validates, <<"flows/quiz.yml">>,
                                    page_desc)]
    /\ UNCHANGED <<access_call, access_result>>
    /\ UNCHANGED exceptAccessVars

\* page.get_modified_permissions_for_page(permissions)
GetModifiedPermissions ==
    /\ access_page # NoObject
    /\ access_page.made.exc = "none"
    /\ \E permissions \in SUBSET PagePermissions :
        LET call == get_modified_permissions_for_page(access_page.made,
                                                      permissions)
        IN /\ access_call' = [called |-> TRUE, permissions |-> permissions,
                              after |-> call.argument]
           /\ access_result' = [exc |-> "none", returned |-> call.returned]
    /\ UNCHANGED access_page
    /\ UNCHANGED exceptAccessVars

InitAccess ==
    /\ IdleMachine
    /\ IdleGradebook
    /\ IdleFeedback
    /\ IdleText
    /\ IdleFloat
    /\ IdleChoice
    /\ IdleCode
    /\ IdleHuman
    /\ IdleUpload
    /\ IdleStruct
    /\ IdleFlow
    /\ IdleTextPage
    /\ IdleExpiration
    /\ IdleIm
    /\ access_page = NoObject
    /\ access_call = NoCall
    /\ access_result = NoObject

NextAccess == NewPage \/ GetModifiedPermissions

SpecAccess == InitAccess /\ [][NextAccess]_vars

(* ------------------------- course/im.py ------------------------------- *)

MaxCourses == 2         \* courses with instant messaging
MaxRequests == 3        \* get_xmpp_connection calls of a behaviour

Courses == 1 .. MaxCourses

\* calls and the connections they create share their numbers: call r
\* creates connection r, and Disconnector r is the one of connection r
RequestIds == 1 .. MaxRequests

\* _xmpp_connections as a function of course.pk: None where the dict has
\* no such key
NoConnections == [course \in Courses |-> None]

\* a call has looked the course up and not yet registered a connection
InFlight(request) == request.pc \in {"missed", "connected"}

\* get_xmpp_connection(course), up to the dict lookup: the cached
\* connection is returned, or KeyError is raised and caught
Lookup ==
    /\ Len(im_requests) < MaxRequests
    /\ \E course \in Courses :
        IF xmpp_connections[course] # None
        THEN /\ im_requests' =
                    Append(im_requests,
                           [course |-> course, pc |-> "returned",
                            xmpp |-> xmpp_connections[course]])
             /\ im_raced' = im_raced
        ELSE /\ im_requests' =
                    Append(im_requests,
                           [course |-> course, pc |-> "missed", xmpp |-> None])
             /\ im_raced' =
                    (im_raced \/ \E r \in 1 .. Len(im_requests) :
                                    InFlight(im_requests[r]))
    /\ im_connections' = Append(im_connections, [state |-> "none"])
    /\ im_timers' = Append(im_timers, [state |-> "none"])
    /\ UNCHANGED <<xmpp_connections, disconnectors>>
    /\ UNCHANGED exceptImVars

\* xmpp = CourseXMPP(...); xmpp.connect() and xmpp.process(), or
\* RuntimeError("unable to connect")
Connect(r) ==
    /\ im_requests[r].pc = "missed"
    /\ \E connected \in BOOLEAN :
        /\ im_connections' =
            [im_connections EXCEPT ![r] =
                [state |-> IF connected THEN "connected" ELSE "failed",
                 course |-> im_requests[r].course,
                 created_while_cached |->
                    xmpp_connections[im_requests[r].course] # None]]
        /\ im_requests' =
            [im_requests EXCEPT ![r].pc =
                IF connected THEN "connected" ELSE "raised",
                                ![r].xmpp = Some(r)]
    /\ UNCHANGED <<xmpp_connections, disconnectors, im_timers, im_raced>>
    /\ UNCHANGED exceptImVars

\* _xmpp_connections[course.pk] = xmpp
Register(r) ==
    /\ im_requests[r].pc = "connected"
    /\ xmpp_connections' =
        [xmpp_connections EXCEPT ![im_requests[r].course] = Some(r)]
    /\ im_requests' = [im_requests EXCEPT ![r].pc = "registered"]
    /\ UNCHANGED <<im_connections, disconnectors, im_timers, im_raced>>
    /\ UNCHANGED exceptImVars

\* the waits, then _disconnectors.append(Disconnector(xmpp, course)), whose
\* constructor starts the timer, and return xmpp; the 60 seconds of the
\* timer end after the append
Schedule(r) ==
    /\ im_requests[r].pc = "registered"
    /\ im_timers' = [im_timers EXCEPT ![r] = [state |-> "started"]]
    /\ disconnectors' = Append(disconnectors, r)
    /\ im_requests' = [im_requests EXCEPT ![r].pc = "returned"]
    /\ UNCHANGED <<im_connections, xmpp_connections, im_raced>>
    /\ UNCHANGED exceptImVars

\* Disconnector.__call__, first statement:
\* del _xmpp_connections[self.course.pk]; a KeyError ends the timer thread
TimerDelete(d) ==
    /\ im_timers[d].state = "started"
    /\ LET course == im_connections[d].course
       IN IF xmpp_connections[course] = None
          THEN /\ im_timers' = [im_timers EXCEPT ![d] = [state |-> "KeyError"]]
               /\ UNCHANGED xmpp_connections
          ELSE /\ im_timers' =
                    [im_timers EXCEPT ![d] =
                        [state |-> "deleted",
                         removed |-> xmpp_connections[course][1]]]
               /\ xmpp_connections' =
                    [xmpp_connections EXCEPT ![course] = None]
    /\ UNCHANGED <<im_requests, im_connections, disconnectors, im_raced>>
    /\ UNCHANGED exceptImVars

\* Disconnector.__call__, second statement: self.xmpp.disconnect(wait=True)
TimerDisconnect(d) ==
    /\ im_timers[d].state = "deleted"
    /\ im_connections' = [im_connections EXCEPT ![d].state = "disconnected"]
    /\ im_timers' = [im_timers EXCEPT ![d].state = "disconnected"]
    /\ UNCHANGED <<im_requests, xmpp_connections, disconnectors, im_raced>>
    /\ UNCHANGED exceptImVars

\* list.remove(x) of the first entry equal to x
remove(list, x) ==
    LET first == CHOOSE i \in 1 .. Len(list) :
                    list[i] = x /\ \A j \in 1 .. i - 1 : list[j] # x
    IN SubSeq(list, 1, first - 1) \o SubSeq(list, first + 1, Len(list))

\* Disconnector.__call__, last statement: _disconnectors.remove(self)
TimerRemove(d) ==
    /\ im_timers[d].state = "disconnected"
    /\ disconnectors' = remove(disconnectors, d)
    /\ im_timers' = [im_timers EXCEPT ![d].state = "done"]
    /\ UNCHANGED <<im_requests, im_connections, xmpp_connections, im_raced>>
    /\ UNCHANGED exceptImVars

Request(r) == Connect(r) \/ Register(r) \/ Schedule(r)
Timer(d) == TimerDelete(d) \/ TimerDisconnect(d) \/ TimerRemove(d)

InitIm ==
    /\ IdleMachine
    /\ IdleGradebook
    /\ IdleFeedback
    /\ IdleText
    /\ IdleFloat
    /\ IdleChoice
    /\ IdleCode
    /\ IdleHuman
    /\ IdleUpload
    /\ IdleStruct
    /\ IdleFlow
    /\ IdleTextPage
    /\ IdleExpiration
    /\ IdleAccess
    /\ im_requests = <<>>
    /\ im_connections = <<>>
    /\ xmpp_connections = NoConnections
    /\ disconnectors = <<>>
    /\ im_timers = <<>>
    /\ im_raced = FALSE

NextIm ==
    \/ Lookup
    \/ \E r \in 1 .. Len(im_requests) : Request(r)
    \/ \E d \in 1 .. Len(im_timers) : Timer(d)

SpecIm == InitIm /\ [][NextIm]_vars

\* every started timer fires, and its thread runs on while it can
SpecImFair ==
    /\ SpecIm
    /\ \A d \in RequestIds :
        WF_vars(d \in 1 .. Len(im_timers) /\ Timer(d))

(* ------------------ claims about the grade state machine -------------- *)

Kinds(es) == {es[i].kind : i \in 1 .. Len(es)}

\* index of the last do_over of es, 0 without one
DoOverIndex(es) ==
    SetMax({0} \cup {i \in 1 .. Len(es) : es[i].kind = "do_over"})

\* the terminal events (graded, unavailable) of attempt a since the last do_over
TerminalEvents(es, a) ==
    {i \in DoOverIndex(es) + 1 .. Len(es) :
        es[i].attempt_id = a /\ es[i].kind \in {"graded", "unavailable"}}

\* the attempts that reached graded: their last terminal event is a graded one
GradedAttempts(es) ==
    {a \in Attempts :
        /\ TerminalEvents(es, a) # {}
        /\ es[SetMax(TerminalEvents(es, a))].kind = "graded"}

\* the graded events that are the results of the graded attempts
ResultEvents(es) == {SetMax(TerminalEvents(es, a)) : a \in GradedAttempts(es)}

RECURSIVE SumOfPoints(_, _)
SumOfPoints(es, I) ==
    IF I = {} THEN 0
    ELSE LET i == CHOOSE x \in I : TRUE
         IN es[i].points[1] + SumOfPoints(es, I \ {i})

\* the aggregation strategy applied to the graded attempts of es
ExpectedPoints(es, strategy) ==
    LET R == ResultEvents(es) IN
    IF R = {} THEN None
    ELSE CASE strategy = "max_grade" ->
                <<SetMax({es[i].points[1] : i \in R}), 1>>
           [] strategy = "min_grade" ->
                <<SetMin({es[i].points[1] : i \in R}), 1>>
           [] strategy = "avg_grade" ->
                <<SumOfPoints(es, R), Cardinality(R)>>
           [] strategy = "use_earliest" ->
                <<es[SetMin(R)].points[1], 1>>
           [] strategy = "use_latest" ->
                <<es[SetMax(R)].points[1], 1>>

\* C2: whenever the last event consumed is an exempt event, the machine's
\* state is exempt, whatever graded events and points came before it.
C2_ExemptLastIsExempt ==
    (consumed # <<>> /\ consumed[Len(consumed)].kind = "exempt")
        => machine.state = "exempt"

\* a graded event with points, then an exempt event as the last one
C2_Witness ==
    /\ Len(consumed) >= 2
    /\ consumed[Len(consumed)].kind = "exempt"
    /\ \E i \in 1 .. Len(consumed) - 1 :
        consumed[i].kind = "graded" /\ consumed[i].points = Some(1)
    /\ machine.state = "exempt"
    /\ machine.results # <<>>

InInsertionOrder(participation, opp) ==
    SelectSeq(grade_changes,
        LAMBDA r : r.participation = participation /\ r.opportunity = opp)

\* C5: every machine of the grade table is a fresh machine fed exactly the
\* grade changes of its pair, ordered by grade_time with equal times in
\* insertion order.
C5_FedInInsertionOrder ==
    \A x \in GradeInfos :
        /\ x.grade_changes = InInsertionOrder(x.participation, x.opportunity)
        /\ x.grade_state_machine =
            consume(GradeStateMachine,
                    InInsertionOrder(x.participation, x.opportunity))

(* -------------------- claims about AnswerFeedback --------------------- *)

\* the objects that exist
FeedbackObjects == {o \in {answer_feedback, reloaded} : o.exc = "none"}

\* C6: the constructor raises ValueError exactly for a correctness below 0
\* or above 1, and makes an object for None and for every value in [0,1],
\* both endpoints included; every object that exists has a correctness that
\* is None or within [0,1].
C6_CorrectnessRange ==
    /\ feedback_args # NoCall =>
        LET c == feedback_args.correctness IN
        /\ answer_feedback.exc \in {"ValueError", "none"}
        /\ answer_feedback.exc = "ValueError" <=>
                (c # None /\ (c[1] < 0 \/ c[1] > Scale))
        /\ answer_feedback.exc = "none" =>
                answer_feedback.correctness = c
    /\ \A o \in FeedbackObjects :
        o.correctness = None
        \/ (0 <= o.correctness[1] /\ o.correctness[1] <= Scale)

\* a correctness above 1 was refused
C6_Witness ==
    /\ feedback_args # NoCall
    /\ feedback_args.correctness = Some(Scale + 1)
    /\ answer_feedback.exc = "ValueError"

\* C7: from_json(x.as_json()) has the correctness, the feedback and the
\* normalized_answer of x, in each of the three cases of normalized_answer;
\* the key normalized_answer is in the JSON exactly when x's is not an
\* instance of NoNormalizedAnswerAvailable.
C7_JsonRoundTrip ==
    /\ feedback_json # NoJson =>
        ("normalized_answer" \in DOMAIN feedback_json.json
            <=> answer_feedback.normalized_answer # NoNormalizedAnswerAvailable)
    /\ reloaded # NoObject =>
        /\ reloaded.exc = "none"
        /\ reloaded.correctness = answer_feedback.correctness
        /\ reloaded.feedback = answer_feedback.feedback
        /\ reloaded.normalized_answer = answer_feedback.normalized_answer

\* an object without a normalized answer went through JSON, the key omitted
C7_Witness ==
    /\ reloaded # NoObject
    /\ answer_feedback.normalized_answer = NoNormalizedAnswerAvailable
    /\ "normalized_answer" \notin DOMAIN feedback_json.json
    /\ reloaded.normalized_answer = NoNormalizedAnswerAvailable

\* the text the claim gives for a correctness
ClaimedAutoFeedback(c) ==
    IF c = None THEN "(No information on correctness of answer.)"
    ELSE IF c[1] = 0 THEN "Your answer is not correct."
    ELSE IF c[1] = Scale THEN "Your answer is correct."
    ELSE IF 2 * c[1] > Scale /\ c[1] < Scale
    THEN "Your answer is mostly correct. (%.1f %%)"
    ELSE "Your answer is somewhat correct. (%.1f %%)"

\* C8: constructed without feedback text and with a correctness that is None
\* or within [0,1], the object exists and its text is generated from the
\* correctness alone: 0 not correct, 1 correct, strictly between 0.5 and 1
\* mostly correct, above 0 and at most 0.5 somewhat correct, None no
\* information.
C8_AutoFeedback ==
    (feedback_args # NoCall /\ feedback_args.feedback = None) =>
        LET c == feedback_args.correctness IN
        (c = None \/ (0 <= c[1] /\ c[1] <= Scale)) =>
            /\ answer_feedback.exc = "none"
            /\ answer_feedback.feedback[1] = ClaimedAutoFeedback(c)
            /\ Len(answer_feedback.feedback) = 2 =>
                    Scale * answer_feedback.feedback[2] = 1000 * c[1]

\* correctness 0.5 gave the text for a somewhat correct answer
C8_Witness ==
    /\ feedback_args # NoCall
    /\ feedback_args.feedback = None
    /\ feedback_args.correctness # None
    /\ 2 * feedback_args.correctness[1] = Scale
    /\ answer_feedback.exc = "none"
    /\ answer_feedback.feedback =
        <<"Your answer is somewhat correct. (%.1f %%)", 500>>

(* ------------------ claims about text questions ----------------------- *)

\* the grades the matchers of the question give the answer
MatcherGrades(answer) ==
    {matcher_grade(text_question.matchers[i], answer) :
        i \in 1 .. Len(text_question.matchers)}

SameLetter(c, d) ==
    \/ c = d
    \/ c \in 65 .. 90 /\ d = c + 32
    \/ d \in 65 .. 90 /\ c = d + 32

\* two strings that differ at most in the case of their letters
EqualIgnoringCase(s, t) ==
    /\ Len(s) = Len(t)
    /\ \A i \in 1 .. Len(s) : SameLetter(s[i], t[i])

\* C10: the plain matcher grades 1 iff pattern and input are equal once both
\* are case-folded, the case_sens_plain matcher grades 1 iff they are exactly
\* equal; an input that differs from the pattern only in letter case scores
\* 1 under plain and 0 under case_sens_plain.
C10_PlainMatchers ==
    (/\ text_answer # NoCall
     /\ text_answer.answer_data # None
     /\ Len(text_question.matchers) = 1) =>
        LET matcher == text_question.matchers[1]
            answer == text_answer.answer_data[1]
        IN /\ matcher.type = "plain" =>
                /\ text_feedback.correctness = Some(Scale)
                    <=> EqualIgnoringCase(matcher.pattern, answer)
                /\ text_feedback.correctness = Some(0)
                    <=> ~EqualIgnoringCase(matcher.pattern, answer)
           /\ matcher.type = "case_sens_plain" =>
                /\ text_feedback.correctness = Some(Scale)
                    <=> matcher.pattern = answer
                /\ text_feedback.correctness = Some(0)
                    <=> matcher.pattern # answer

\* the plain matcher accepts an answer that differs from its pattern in
\* letter case only
C10_Witness ==
    /\ text_answer # NoCall
    /\ text_answer.answer_data # None
    /\ Len(text_question.matchers) = 1
    /\ text_question.matchers[1].type = "plain"
    /\ text_question.matchers[1].pattern # text_answer.answer_data[1]
    /\ text_question.matchers[1].pattern # lower(text_answer.answer_data[1])
    /\ EqualIgnoringCase(text_question.matchers[1].pattern,
                         text_answer.answer_data[1])
    /\ text_feedback.correctness = Some(Scale)


\* the pattern without an end anchor "$" at its end
Unanchored(pattern) ==
    IF pattern # <<>> /\ pattern[Len(pattern)] = 36
    THEN SubSeq(pattern, 1, Len(pattern) - 1)
    ELSE pattern

\* the pattern matches the first characters of s, one pattern character
\* ("." standing for any character) per character of s, and these are all
\* of s when the pattern ends in "$"
MatchesPrefix(pattern, s, ignore_case) ==
    LET body == Unanchored(pattern) IN
    /\ Len(body) <= Len(s)
    /\ \A i \in 1 .. Len(body) :
        \/ body[i] = 46
        \/ body[i] = s[i]
        \/ ignore_case /\ SameLetter(body[i], s[i])
    /\ body # pattern => Len(body) = Len(s)

\* the plain matchers of the question all reject the answer
PlainMatchersReject(answer) ==
    \A i \in 1 .. Len(text_question.matchers) :
        LET m == text_question.matchers[i] IN
        /\ m.type = "plain" => ~EqualIgnoringCase(m.pattern, answer)
        /\ m.type = "case_sens_plain" => m.pattern # answer

\* C11: a regex matcher grades 1 iff its pattern matches a prefix of the
\* input that begins at the first character: input that goes on after the
\* matched prefix still scores 1 unless the pattern anchors the end, and a
\* match that occurs only later in the input scores 0; regex ignores letter
\* case, case_sens_regex does not. Stated on the questions whose plain
\* matchers reject the answer, where the correctness is 1 iff a regex matcher
\* grades 1.
C11_RegexMatchesPrefix ==
    (/\ text_answer # NoCall
     /\ text_answer.answer_data # None
     /\ PlainMatchersReject(text_answer.answer_data[1])) =>
        LET answer == text_answer.answer_data[1]
            accepting ==
                \E i \in 1 .. Len(text_question.matchers) :
                    LET m == text_question.matchers[i] IN
                    \/ /\ m.type = "regex"
                       /\ MatchesPrefix(m.pattern, answer, TRUE)
                    \/ /\ m.type = "case_sens_regex"
                       /\ MatchesPrefix(m.pattern, answer, FALSE)
        IN /\ accepting => text_feedback.correctness = Some(Scale)
           /\ ~accepting => text_feedback.correctness = Some(0)

\* the regex pattern "a" accepts the answer "Ab", which goes on after the
\* matched prefix and differs from it in letter case
C11_Witness ==
    /\ text_answer # NoCall
    /\ text_answer.answer_data = Some(<<65, 98>>)
    /\ PlainMatchersReject(<<65, 98>>)
    /\ Len(text_question.matchers) = 2
    /\ text_question.matchers[2] = [type |-> "regex", pattern |-> <<97>>]
    /\ text_feedback.correctness = Some(Scale)

(* ------------------ claims about the numeric matcher ------------------ *)

\* the parsed answer lies outside a configured tolerance:
\* |answer - value| > atol, or |answer - value| > rtol * |value|
OutsideTolerance(matcher_desc, answer_float) ==
    LET value == matcher_desc.value
        d == abs_difference(answer_float, value)
    IN \/ /\ "atol" \in DOMAIN matcher_desc
          /\ \/ d.kind = "inf"
             \/ /\ d.kind = "finite"
                /\ d.q[1] * matcher_desc.atol[2] > matcher_desc.atol[1] * d.q[2]
       \/ /\ "rtol" \in DOMAIN matcher_desc
          /\ \/ d.kind = "inf"
             \/ /\ d.kind = "finite"
                /\ d.q[1] * matcher_desc.rtol[2] * value[2]
                    > matcher_desc.rtol[1] * Abs(value[1]) * d.q[2]

\* C12: the numeric matcher grades 0 iff the parsed answer lies outside a
\* configured tolerance (|answer - value| > atol, or |answer - value| /
\* |value| > rtol) and 1 in every other case, an answer exactly on a
\* tolerance boundary included; either tolerance failing disqualifies.
C12_GradesZeroIffOutsideTolerance ==
    float_grade # NoCall =>
        float_grade.result =
            [exc |-> "none",
             grade |-> IF OutsideTolerance(float_matcher.matcher_desc,
                                           float(float_answer.answer))
                       THEN 0 ELSE 1]

(* ------------------ claims about choice questions --------------------- *)

\* the original choice shown at a displayed position
OriginalChoice(position) ==
    choice_question.page_desc.choices[page_data.permutation[position]]

\* C13: for an answered ChoiceQuestion with stored permutation p and
\* selected displayed position c, the correctness is 1 iff the original
\* choice p[c] carries the tag ~CORRECT~, and 0 otherwise, for every
\* permutation and with several tagged choices.
C13_CorrectIffTaggedChoiceSelected ==
    (choice_answer # NoCall /\ choice_answer.answer_data # None) =>
        LET c == choice_answer.answer_data[1]
            tagged == OriginalChoice(c)[1] = CORRECT_TAG
        IN /\ choice_feedback.exc = "none"
           /\ tagged => choice_feedback.correctness = Some(Scale)
           /\ ~tagged => choice_feedback.correctness = Some(0)

\* two tagged choices, a permutation that is not the identity, and the
\* selected position shows a tagged choice that is not at that index
C13_Witness ==
    /\ choice_answer # NoCall
    /\ choice_answer.answer_data # None
    /\ Cardinality(unpermuted_correct_indices(choice_question)) = 2
    /\ page_data.permutation[choice_answer.answer_data[1]]
        # choice_answer.answer_data[1]
    /\ choice_answer.answer_data[1]
        \notin unpermuted_correct_indices(choice_question)
    /\ OriginalChoice(choice_answer.answer_data[1])[1] = CORRECT_TAG
    /\ choice_feedback.correctness = Some(Scale)

\* C14: make_page_data returns a permutation of the indices 0..n-1 of the n
\* choices, every index exactly once, and the identity when shuffle is false
\* or absent.
C14_PermutationOfIndices ==
    page_data # NoObject =>
        LET n == len(choice_question.page_desc.choices)
            permutation == page_data.permutation
        IN /\ DOMAIN permutation = 0 .. n - 1
           /\ \A k \in 0 .. n - 1 :
                Cardinality({i \in 0 .. n - 1 : permutation[i] = k}) = 1
           /\ ("shuffle" \notin DOMAIN choice_question.page_desc
                    \/ ~choice_question.page_desc.shuffle)
                => \A i \in 0 .. n - 1 : permutation[i] = i

\* a shuffled page of three choices whose permutation moves every index
C14_Witness ==
    /\ page_data # NoObject
    /\ len(choice_question.page_desc.choices) = 3
    /\ choice_question.page_desc = [choices |-> choice_question.page_desc.choices,
                                    shuffle |-> TRUE]
    /\ \A i \in 0 .. 2 : page_data.permutation[i] # i

\* what the renderer shows at the positions and what the grader evaluates
\* agree with the stored permutation
RendererAndGraderAgree ==
    /\ choice_form # NoCall =>
        /\ DOMAIN choice_form.choices = DOMAIN page_data.permutation
        /\ \A i \in DOMAIN choice_form.choices :
            choice_form.choices[i]
                = <<i, [html |-> <<ChoiceMarkup[page_data.permutation[i] + 1]>>]>>
    /\ (choice_answer # NoCall /\ choice_answer.answer_data # None) =>
        LET c == choice_answer.answer_data[1]
        IN /\ choice_feedback.normalized_answer
                = Some([html |-> <<ChoiceMarkup[page_data.permutation[c] + 1]>>])
           /\ choice_form # NoCall =>
                choice_feedback.normalized_answer = Some(choice_form.choices[c][2])

\* C15: once page_data has been generated, rendering the form and grading,
\* any number of times and in any order, never regenerate or modify it, and
\* the choice shown at position i by the renderer is the original choice the
\* grader evaluates for a selection of position i.
C15_PageDataImmutableAndShared ==
    /\ [][page_data # NoObject => page_data' = page_data]_vars
    /\ []RendererAndGraderAgree

\* a form rendered and an answer graded under a permutation that is not the
\* identity, the selected position showing another index's choice
C15_Witness ==
    /\ choice_form # NoCall
    /\ choice_answer # NoCall
    /\ choice_answer.answer_data # None
    /\ page_data.permutation[choice_answer.answer_data[1]]
        # choice_answer.answer_data[1]
    /\ choice_feedback.normalized_answer
        = Some(choice_form.choices[choice_answer.answer_data[1]][2])

(* ------------------ claims about code questions ----------------------- *)

\* the last grade call requested a run
Ran == code_run # NoCall

\* C16: whenever the result kind of the run is timeout, grade returns an
\* AnswerFeedback whose correctness is exactly 0, even if the response also
\* carries points, and whose text says that the code took too long; a socket
\* timeout of the run request is turned into the result timeout, so that
\* grade returns this feedback then as well.
C16_TimeoutIsZero ==
    (/\ Ran
     /\ \/ code_run.event = "socket.timeout"
        \/ code_run.event = "response" /\ code_run.json.result = "timeout") =>
        /\ code_feedback.exc = "none"
        /\ code_feedback.correctness = Some(0)
        /\ \E i \in 1 .. Len(code_feedback.feedback[1]) :
            code_feedback.feedback[1][i] = "Your code took too long to execute."
        /\ code_mails = <<>>

\* a timeout response that carries full points is graded 0
C16_Witness ==
    /\ Ran
    /\ code_run.event = "response"
    /\ code_run.json.result = "timeout"
    /\ "points" \in DOMAIN code_run.json
    /\ code_run.json.points = Some(Scale)
    /\ code_feedback.correctness = Some(0)

\* the run ended in an error of the grading infrastructure
GradingInfrastructureError ==
    /\ Ran
    /\ \/ code_run.event \in {"raised", "ping timeout"}
       \/ /\ code_run.event = "response"
          /\ code_run.json.result \in
                {"uncaught_error", "setup_compile_error", "setup_error",
                 "test_compile_error", "test_error"}

\* C17: whenever the run ends in a grading-infrastructure error (the five
\* error kinds, the run request raising included), grade notifies the staff
\* and returns feedback that is ungraded or zero, never a positive score,
\* with explanatory text; success, timeout, user_compile_error and
\* user_error send no notification.
C17_InfrastructureErrorNotifiesAndIsUngraded ==
    /\ GradingInfrastructureError =>
        /\ Len(code_mails) = 1
        /\ code_feedback.exc = "none"
        /\ code_feedback.correctness \in {None, Some(0)}
        /\ \E i \in 1 .. Len(code_feedback.feedback[1]) :
            code_feedback.feedback[1][i] = "The grading code failed."
    /\ (/\ Ran
        /\ code_run.event = "response"
        /\ code_run.json.result \in
            {"success", "timeout", "user_compile_error", "user_error"}) =>
        code_mails = <<>>

\* C18: for every response with one of the nine defined result kinds, with
\* or without points and whatever their value, grade returns an
\* AnswerFeedback whose correctness is None or within [0,1] and does not
\* raise; only an undefined result kind makes it raise RuntimeError.
C18_AlwaysAFeedbackInRange ==
    (Ran /\ code_run.event = "response") =>
        IF code_run.json.result \in ResultKinds
        THEN /\ code_feedback.exc = "none"
             /\ \/ code_feedback.correctness = None
                \/ /\ code_feedback.correctness[1] >= 0
                   /\ code_feedback.correctness[1] <= Scale
        ELSE code_feedback.exc = "RuntimeError"

(* ------------- claims about code questions with human feedback -------- *)

\* the last grade call was for an answer, and its grade_data is released
\* with a grade_percent
ReleasedWithPercent ==
    /\ human_grade_data # NoCall
    /\ code_answer.answer_data # None
    /\ human_grade_data.grade_data # None
    /\ human_grade_data.grade_data[1].released
    /\ human_grade_data.grade_data[1].grade_percent # None

\* the last grade call was for an answer, and no human feedback is released
NotReleased ==
    /\ human_grade_data # NoCall
    /\ code_answer.answer_data # None
    /\ \/ human_grade_data.grade_data = None
       \/ ~human_grade_data.grade_data[1].released

\* C19: with a released grade_percent g and an automatic correctness c the
\* reported correctness is
\* (c*(value - human_feedback_value) + (g/100)*human_feedback_value) / value,
\* and with human_feedback_value <= value, c in [0,1] and g in 0..100 it
\* lies in [0,1].
C19_BlendedCorrectness ==
    (/\ ReleasedWithPercent
     /\ code_feedback.exc = "none"
     /\ code_feedback.correctness # None) =>
        LET value == human_page.page_desc.value
            human_feedback_value == human_page.page_desc.human_feedback_value
            k == code_feedback.correctness[1]
            g == human_grade_data.grade_data[1].grade_percent[1]
        IN /\ human_feedback.exc = "none"
           /\ human_feedback.correctness # None
           /\ human_feedback.correctness[1][1] * (100 * Scale * value)
                = (100 * k * (value - human_feedback_value)
                   + Scale * g * human_feedback_value)
                  * human_feedback.correctness[1][2]
           /\ (human_feedback_value <= value /\ g <= 100) =>
                /\ human_feedback.correctness[1][1] >= 0
                /\ human_feedback.correctness[1][1]
                    <= human_feedback.correctness[1][2]

\* what a grade call returns when it returns None
ReturnsNone == [exc |-> "none", returned |-> "None"]

UploadGraded == upload_answer # NoCall

\* the grade_data of the grade call is released and has a grade_percent
ReleasedPercent ==
    /\ upload_answer.grade_data # None
    /\ upload_answer.grade_data[1].released
    /\ upload_answer.grade_data[1].grade_percent # None

\* C21: a purely human-graded page grades an absent answer as correctness 0
\* with "No answer provided."; for an answer it returns None unless the
\* grade_data is released and has a grade_percent, and then it returns an
\* AnswerFeedback with correctness grade_percent/100, for every
\* grade_percent the form accepts, without raising
C21_HumanGradeForEveryAcceptedPercent ==
    UploadGraded =>
        /\ upload_feedback.exc = "none"
        /\ upload_answer.answer_data = None =>
            /\ upload_feedback.returned # None
            /\ upload_feedback.returned[1].correctness = Some(0)
            /\ upload_feedback.returned[1].feedback
                    = <<"No answer provided.">>
        /\ (upload_answer.answer_data # None /\ ~ReleasedPercent) =>
            upload_feedback.returned = None
        /\ (upload_answer.answer_data # None /\ ReleasedPercent) =>
            /\ upload_feedback.returned # None
            /\ upload_feedback.returned[1].correctness
                = Some(<<upload_answer.grade_data[1].grade_percent[1], 100>>)

\* the part of C21 that holds: up to 100 percent
C21_UpToHundredPercent ==
    (UploadGraded
     /\ (ReleasedPercent => upload_answer.grade_data[1].grade_percent[1] <= 100))
        => C21_HumanGradeForEveryAcceptedPercent

\* an accepted grade_percent above 100, released, on an answered page
C21_ExtraCredit ==
    /\ UploadGraded
    /\ upload_answer.answer_data # None
    /\ ReleasedPercent
    /\ upload_answer.grade_data[1].grade_percent[1] = 150
    /\ upload_feedback = [exc |-> "ValueError"]

(* ----------------------- claims about validation ---------------------- *)

AttrRecsOf(call) ==
    {call.required_attrs[i] : i \in 1 .. Len(call.required_attrs)}
    \cup {call.allowed_attrs[i] : i \in 1 .. Len(call.allowed_attrs)}

PublicAttrs(obj) == {name \in DOMAIN obj : ~startswith_underscore(name)}

\* what C25 says an acceptable descriptor is: every required attribute is
\* present, every present listed attribute has one of its listed types (an
\* attribute listed by name alone has no type to have), and no public
\* attribute is unlisted
Acceptable(call) ==
    /\ \A i \in 1 .. Len(call.required_attrs) :
            call.required_attrs[i].attr \in PublicAttrs(call.obj)
    /\ \A rec \in AttrRecsOf(call) :
            (rec.attr \in PublicAttrs(call.obj) /\ rec.types # None)
                => isinstance(call.obj[rec.attr], rec.types[1])
    /\ \A name \in PublicAttrs(call.obj) :
            \E rec \in AttrRecsOf(call) : rec.attr = name

\* C25: validate_struct accepts a descriptor iff every required attribute is
\* present, every present listed attribute has one of its listed types and
\* no public attribute is unlisted; otherwise it raises a ValidationError
\* that names the location
C25_AcceptsIffWellFormed ==
    struct_call # NoCall =>
        IF Acceptable(struct_call)
        THEN struct_result = [exc |-> "none"]
        ELSE /\ struct_result.exc = "ValidationError"
             /\ struct_result.location = struct_call.location

\* the part of C25 that holds: lists of (name, type) tuples only
C25_TypedListsOnly ==
    (/\ struct_call # NoCall
     /\ \A rec \in AttrRecsOf(struct_call) : rec.types # None)
        => C25_AcceptsIffWellFormed

\* an attribute listed by name alone that the descriptor has
C25_UntypedAttribute ==
    /\ struct_call # NoCall
    /\ struct_call.obj = [id |-> [type |-> "str"]]
    /\ struct_call.required_attrs = <<[attr |-> "id", types |-> None]>>
    /\ struct_call.allowed_attrs = <<>>
    /\ struct_result = [exc |-> "TypeError"]

FlowGroupsOf(call) == call.flow_desc.groups.items

GroupsShareAnId(groups) ==
    \E i, j \in 1 .. Len(groups) : i # j /\ groups[i].id = groups[j].id
PagesShareAnId(groups) ==
    \E g \in 1 .. Len(groups) :
        \E i, j \in 1 .. Len(groups[g].pages.items) :
            /\ i # j
            /\ groups[g].pages.items[i].id = groups[g].pages.items[j].id
SomeGroupIsEmpty(groups) ==
    \E g \in 1 .. Len(groups) : Len(groups[g].pages.items) = 0

\* the ValidationError carries the location the call was given
CarriesLocation(result, location) ==
    /\ result.exc = "ValidationError"
    /\ Len(result.location) >= Len(location)
    /\ SubSeq(result.location, 1, Len(location)) = location

\* C22: validate_flow_desc rejects, with a ValidationError that carries the
\* location and with no other error, every flow descriptor in which two
\* groups share an id, two pages of a group share an id, a group has no
\* pages or there is no group; a descriptor it accepts has unique group
\* ids, unique page ids in each group and only non-empty groups
C22_RejectsWithValidationError ==
    flow_call # NoCall =>
        LET groups == FlowGroupsOf(flow_call)
            flawed ==
                \/ GroupsShareAnId(groups)
                \/ PagesShareAnId(groups)
                \/ SomeGroupIsEmpty(groups)
                \/ Len(groups) = 0
        IN /\ flawed => CarriesLocation(flow_result, flow_call.location)
           /\ flow_result.exc = "none" => ~flawed

\* the part of C22 that holds: what is accepted is well-formed, and a
\* descriptor without access rules whose groups all have pages is rejected
\* with a ValidationError when ids are shared or there is no group
C22_AcceptedIsWellFormed ==
    flow_call # NoCall =>
        LET groups == FlowGroupsOf(flow_call)
        IN /\ flow_result.exc = "none" =>
                /\ ~GroupsShareAnId(groups)
                /\ ~PagesShareAnId(groups)
                /\ ~SomeGroupIsEmpty(groups)
                /\ Len(groups) > 0
           /\ (/\ ~hasattr(flow_call.flow_desc, "access_rules")
               /\ ~SomeGroupIsEmpty(groups)
               /\ GroupsShareAnId(groups) \/ PagesShareAnId(groups)
                    \/ Len(groups) = 0)
                => CarriesLocation(flow_result, flow_call.location)

\* a group with a string id and no pages, in a flow without access rules
C22_EmptyGroup ==
    /\ flow_call # NoCall
    /\ ~hasattr(flow_call.flow_desc, "access_rules")
    /\ FlowGroupsOf(flow_call) = <<[id |-> StrId(<<97>>), pages |-> List(<<>>)]>>
    /\ flow_result = [exc |-> "TypeError"]

(* ------------- claims about text questions and their form ------------- *)

\* the answers list the page of the state was constructed from, where the
\* construction succeeded
Constructed == textpage_question # NoObject /\ textpage_question.exc = "none"

Supplying(matchers) ==
    {i \in 1 .. Len(matchers) :
        matchers[i].type \in {"plain", "case_sens_plain", "float"}}

\* C23: a TextQuestion is not constructed from an empty answers list or
\* from matchers none of which supplies a correct-answer text; for every
\* constructed TextQuestion correct_answer succeeds and displays the text
\* of the first matcher, in configured order, that supplies one
C23_CorrectAnswerOfFirstSupplier ==
    Constructed =>
        /\ Len(textpage_question.matchers) > 0
        /\ Supplying(textpage_question.matchers) # {}
        /\ textpage_correct_answer # NoObject =>
            /\ textpage_correct_answer.exc = "none"
            /\ \E i \in Supplying(textpage_question.matchers) :
                /\ \A j \in Supplying(textpage_question.matchers) : i <= j
                /\ textpage_correct_answer.text[2]
                    = correct_answer_text(textpage_question.matchers[i])[1]

\* the part of C23 that holds: matchers whose texts are not empty
C23_NonemptyTexts ==
    (/\ Constructed
     /\ \A i \in Supplying(textpage_question.matchers) :
            correct_answer_text(textpage_question.matchers[i]) # Some(<<>>))
        => C23_CorrectAnswerOfFirstSupplier

\* the page with the single answer "<plain>" and its correct_answer
C23_EmptyPattern ==
    /\ Constructed
    /\ textpage_question.matchers = <<[type |-> "plain", pattern |-> <<>>]>>
    /\ textpage_correct_answer = [exc |-> "AssertionError"]

\* C24: for every constructed TextQuestion and every answer the validate of
\* every configured matcher accepted, grade returns an AnswerFeedback with
\* correctness 0 or 1 and does not raise
C24_ValidatedAnswerIsGraded ==
    (/\ Constructed
     /\ textpage_post # NoCall
     /\ textpage_post.valid
     /\ textpage_feedback # NoObject)
        => /\ textpage_feedback.exc = "none"
           /\ textpage_feedback.correctness \in {Some(0), Some(Scale)}

\* the part of C24 that holds: no numeric matcher with rtol and value 0
C24_WithoutRelativeToleranceOfZero ==
    (/\ Constructed
     /\ \A i \in 1 .. Len(textpage_question.matchers) :
            LET matcher == textpage_question.matchers[i]
            IN (matcher.type = "float" /\ "rtol" \in DOMAIN matcher.matcher_desc)
                    => matcher.matcher_desc.value[1] # 0)
        => C24_ValidatedAnswerIsGraded

\* the page with the single numeric answer of value 0 and rtol 0.25, and
\* the accepted answer "10"
C24_RelativeToleranceOfZero ==
    /\ Constructed
    /\ textpage_question.matchers =
        <<[type |-> "float",
           matcher_desc |-> [value |-> <<0, 1>>, rtol |-> <<1, 4>>]]>>
    /\ textpage_post = [called |-> TRUE, answer |-> <<49, 48>>, valid |-> TRUE]
    /\ textpage_feedback = [exc |-> "ZeroDivisionError"]

(* ------------------ claims about expiration modes --------------------- *)

\* C26: is_expiration_mode_allowed returns True for mode end under every
\* permission set, returns True for mode roll_over iff
\* set_roll_over_expiration_mode is among the permissions, and raises
\* ValueError for every other mode under every permission set
C26_ExpirationModeAllowed ==
    expiration_call # NoCall =>
        CASE expiration_call.expmode = "end" ->
                expiration_result = [exc |-> "none", returned |-> TRUE]
          [] expiration_call.expmode = "roll_over" ->
                /\ expiration_result.exc = "none"
                /\ expiration_result.returned
                    <=> "set_roll_over_expiration_mode"
                            \in expiration_call.permissions
          [] OTHER -> expiration_result = [exc |-> "ValueError"]

\* an unknown mode was passed with the permission to roll over, and the
\* call raised
C26_Witness ==
    /\ expiration_call # NoCall
    /\ expiration_call.expmode = "rollover"
    /\ "set_roll_over_expiration_mode" \in expiration_call.permissions
    /\ expiration_result = [exc |-> "ValueError"]

(* ------------------ claims about page access rules -------------------- *)

PageCalled == access_page # NoObject

RulesOf(page_desc) == page_desc.access_rules.attrs

\* the access rules of the descriptor list a permission that is not a flow
\* permission
UnknownPermission(page_desc) ==
    /\ hasattr(page_desc, "access_rules")
    /\ \E attr \in {"add_permissions", "remove_permissions"} :
        /\ hasattr(RulesOf(page_desc), attr)
        /\ entries(RulesOf(page_desc)[attr]) \ FLOW_PERMISSIONS # {}

\* C27: when a page descriptor with access_rules is validated, an unknown
\* permission in add_permissions or in remove_permissions raises
\* ValidationError, and a descriptor that has only one of the two lists
\* validates without any other error
C27_BothListsAreChecked ==
    (PageCalled /\ access_page.validates
     /\ hasattr(access_page.page_desc, "access_rules"))
        => IF UnknownPermission(access_page.page_desc)
           THEN access_page.made.exc = "ValidationError"
           ELSE access_page.made.exc = "none"

\* the part of C27 that holds: descriptors without remove_permissions
C27_AddPermissionsAreChecked ==
    (/\ PageCalled
     /\ hasattr(access_page.page_desc, "access_rules")
     /\ ~hasattr(RulesOf(access_page.page_desc), "remove_permissions"))
        => C27_BothListsAreChecked

\* access rules with remove_permissions only, under validation
C27_RemoveOnly ==
    /\ PageCalled
    /\ access_page.validates
    /\ access_page.page_desc =
        [id |-> Str, type |-> Str,
         access_rules |-> Struct([remove_permissions |-> List(<<"view">>)])]
    /\ access_page.made = [exc |-> "AttributeError"]

\* an unknown permission in remove_permissions that validation accepts
C27_UnknownRemoved ==
    /\ PageCalled
    /\ access_page.validates
    /\ access_page.page_desc =
        [id |-> Str, type |-> Str,
         access_rules |-> Struct([add_permissions |-> List(<<"view">>),
                                  remove_permissions |-> List(<<"fly">>)])]
    /\ access_page.made.exc = "none"

PermissionsCalled == access_call # NoCall

Added(page_desc) ==
    IF hasattr(page_desc, "access_rules")
       /\ hasattr(RulesOf(page_desc), "add_permissions")
    THEN entries(RulesOf(page_desc).add_permissions) ELSE {}
Removed(page_desc) ==
    IF hasattr(page_desc, "access_rules")
       /\ hasattr(RulesOf(page_desc), "remove_permissions")
    THEN entries(RulesOf(page_desc).remove_permissions) ELSE {}

\* C28: get_modified_permissions_for_page returns (permissions \cup
\* add_permissions) \ remove_permissions; a permission in both lists is
\* absent from the result, a page without access_rules returns the
\* permissions unchanged, the collection of the caller is not modified, and
\* the function applied to its own result returns the same set
C28_AddThenRemove ==
    PermissionsCalled =>
        LET page_desc == access_page.page_desc
            result == access_result.returned
        IN /\ result = (access_call.permissions \cup Added(page_desc))
                            \ Removed(page_desc)
           /\ \A perm \in Added(page_desc) \cap Removed(page_desc) :
                perm \notin result
           /\ ~hasattr(page_desc, "access_rules")
                => result = access_call.permissions
           /\ access_call.after = access_call.permissions
           /\ get_modified_permissions_for_page(access_page.made,
                                                result).returned = result

\* a permission the caller has that is in both lists: absent from the result
C28_Witness ==
    /\ PermissionsCalled
    /\ "view" \in access_call.permissions
    /\ "view" \in Added(access_page.page_desc) \cap Removed(access_page.page_desc)
    /\ "see_answer" \in Added(access_page.page_desc)
    /\ access_result.returned = {"see_answer"}

(* ------------------ claims about instant messaging -------------------- *)

ConnectionIds == 1 .. Len(im_connections)

\* connection d has been disconnected and its Disconnector is gone from
\* _disconnectors
Expired(d) ==
    /\ im_connections[d].state = "disconnected"
    /\ \A i \in 1 .. Len(disconnectors) : disconnectors[i] # d

\* a connection still held in the cache is not a disconnected one
CachedIsConnected ==
    \A course \in Courses :
        xmpp_connections[course] # None
            => im_connections[xmpp_connections[course][1]].state
                    # "disconnected"

\* C29: under every interleaving of get_xmpp_connection calls and
\* Disconnector callbacks no connection is created for a course while a
\* cached one exists, each callback finds its course key in the cache and
\* removes from the cache only the connection it was created for, and a
\* connection held in the cache is never a disconnected one
C29_OneConnectionPerCourse ==
    /\ \A d \in ConnectionIds :
        /\ im_connections[d].state # "none"
            => ~im_connections[d].created_while_cached
        /\ im_timers[d].state # "KeyError"
        /\ im_timers[d].state \in {"deleted", "disconnected", "done"}
            => im_timers[d].removed = d
    /\ CachedIsConnected

\* the part of C29 that holds: calls that do not overlap between the cache
\* miss and the registration
C29_WithoutOverlappingCalls == ~im_raced => C29_OneConnectionPerCourse

\* two calls for one course both missed the cache; the callback of the
\* first removed the connection of the second, and the callback of the
\* second found no key
C29_Race ==
    /\ Len(im_requests) >= 2
    /\ im_requests[1].course = im_requests[2].course
    /\ im_timers[1].state \in {"deleted", "disconnected", "done"}
    /\ im_timers[1].removed = 2
    /\ im_timers[2].state = "KeyError"

\* C30: every connection that get_xmpp_connection creates and registers is
\* eventually disconnected once its timer fires, and its Disconnector is
\* eventually removed from _disconnectors
C30_EveryConnectionExpires ==
    \A d \in RequestIds :
        (d \in ConnectionIds /\ im_timers[d].state = "started")
            ~> (d \in ConnectionIds /\ Expired(d))

\* the connection the race leaves behind: its timer has ended with
\* KeyError, it is connected and its Disconnector is registered
C30_LeftOpen ==
    \E d \in ConnectionIds :
        /\ im_timers[d].state = "KeyError"
        /\ im_connections[d].state = "connected"
        /\ \E i \in 1 .. Len(disconnectors) : disconnectors[i] = d

============================================================================
